---- MODULE Spec2Model ----
(***************************************************************************)
(* A model of the OVERTURE-Play stream resolution pipeline (Go, V2 tree):  *)
(* the proof-of-origin token provider with its cache (pot/provider.go),    *)
(* the resolver's client loop and URL rewriting (client/client.go) and     *)
(* the player snapshot construction (Client.ensurePlayer).                 *)
(*                                                                         *)
(* Strings that the code splits or indexes are sequences of one-character  *)
(* strings; opaque strings (tokens, names) are TLA+ strings.  The empty Go *)
(* string is "" for opaque strings and << >> for character sequences.      *)
(***************************************************************************)
EXTENDS Naturals, Integers, Sequences, FiniteSets, TLC

VARIABLES
    \* ---- pot.Provider ----
    cache,      \* Provider.cache: binding -> [Token, ExpiresAt]
    now,        \* the wall clock read by time.Now(), in hours
    tpc,        \* per caller: position inside GetTokenWithOptions
    treg,       \* per caller: locals and the outcome of its last call
    lastRet,    \* per binding: the token and expiry of the latest successful
                \* return, void once the cache has been cleared, and whether
                \* its oracle request was under way during an invalidation
    ncalls,     \* number of provider calls started (bounded by MaxCalls)
    \* ---- client.Client ----
    clients,    \* Client.Clients, the ordered client list
    auth,       \* Client.Auth (NoAuth when nil)
    decipherer, \* Client.Decipherer (NoDecipherer when nil)
    playerURL,  \* Client.PlayerURL and, derived from it, Client.PlayerID
    playerCode, \* Client.PlayerCode
    visitorData,\* Client.VisitorData
    gpc,        \* per goroutine: position inside GetVideo
    greg,       \* per goroutine: locals of GetVideo and the record of its run
    \* ---- decipher.Decipherer ----
    replay,     \* a Decipherer's sigTokens and its latest DecipherSignature
    \* ---- decipher.NSolver ----
    nsolver,    \* an NSolver's script and the record of its Solve calls
    \* ---- stream.Handler ----
    dl,         \* one Handler.Download call: its locals and its requests
    \* ---- token attachment (pot package, Client.addPOTokenToURL) ----
    attach,     \* the inputs and the result of one attachment call
    \* ---- the two ports of the client ----
    port,       \* "go" for client/client.go, "ts" for the TypeScript client
    \* ---- Client.parsePlayerResponse on its own ----
    parsed,     \* a streamingData, the client's decipherer and GVS token, and
                \* the Formats built from them
    \* ---- Client.processNParameter on its own ----
    nparam,\* a stream URL, the client's decipherer and the rewritten URL
    \* ---- auth.Auth on its own ----
    session,\* an Auth's DataSyncID and SessionID under SetDataSyncID calls
    \* ---- NewClientWithOptions on its own ----
    made,\* the options and the Clients and Auth of the client made from them
    \* ---- GetHLSManifest and GetHLSPlaylist ----
    hls,\* a manifest URL, the options' token, the playlists and the URLs fetched
    \* ---- Config.Current (the legacy configuration) ----
    config \* the stored player script URL and tokens, and the refresh goroutine

tokVars == <<cache, now, tpc, treg, lastRet, ncalls>>

\* The library objects that stand beside the resolver; no provider or
\* GetVideo step writes them.
libVars == <<replay, nsolver, dl, attach, port, parsed, nparam, session, made, hls, config>>

cfgVars == <<clients, auth, libVars>>

playerVars == <<decipherer, playerURL, playerCode, visitorData>>

resVars == <<cfgVars, playerVars, gpc, greg>>

clientVars == <<clients, auth, playerVars, gpc, greg>>

\* What a step of one library object leaves alone.
notReplay == <<tokVars, clientVars, nsolver, dl, attach, port, parsed, nparam, session, made, hls, config>>
notSolver == <<tokVars, clientVars, replay, dl, attach, port, parsed, nparam, session, made, hls, config>>
notDownload == <<tokVars, clientVars, replay, nsolver, attach, port, parsed, nparam, session, made, hls, config>>
notParsed == <<tokVars, clientVars, replay, nsolver, dl, attach, port, nparam, session, made, hls, config>>
notAttach == <<tokVars, clientVars, replay, nsolver, dl, port, parsed, nparam, session, made, hls, config>>
notNparam ==
    <<tokVars, clientVars, replay, nsolver, dl, attach, port, parsed, session, made, hls, config>>
notSession ==
    <<tokVars, clientVars, replay, nsolver, dl, attach, port, parsed, nparam, made, hls, config>>
notMade ==
    <<tokVars, clientVars, replay, nsolver, dl, attach, port, parsed, nparam, session, hls, config>>
notHls ==
    <<tokVars, clientVars, replay, nsolver, dl, attach, port, parsed, nparam, session, made, config>>
notConfig ==
    <<tokVars, clientVars, replay, nsolver, dl, attach, port, parsed, nparam, session, made, hls>>

vars == <<tokVars, resVars>>

(***************************************************************************)
(* Bounds                                                                  *)
(***************************************************************************)
MaxTime == 6        \* the clock runs from 1 to MaxTime
MaxCalls == 2       \* provider calls started in one behaviour
MaxIdLen == 3       \* length of a dataSyncID / visitor string
OracleLife == 2     \* hours an oracle-stated expiry lies ahead
MaxFormats == 1     \* formats plus adaptiveFormats in one player response
MaxTokens == 2      \* length of a Decipherer's token list
MaxOperand == 2     \* largest numeric operand of a signature token
MaxSigLen == 3      \* length of a signature handed to DecipherSignature
MaxSolves == 2      \* Solve calls on one NSolver
MaxLength == 5      \* content length of a downloaded format, in 5 MiB units
MaxURLLen == 3      \* characters of a manifest URL
MaxParams == 2      \* query parameters of a segment URL
MaxParsed == 3      \* raw formats of a streamingData parsed on its own
MaxSets == 3        \* SetDataSyncID calls on one Auth
MaxUpdates == 4     \* Update calls of the configuration refresh

(***************************************************************************)
(* pot/provider.go                                                         *)
(***************************************************************************)
\* NewProvider: cacheTTL = 5 * time.Hour
CacheTTL == 5

Callers == {1, 2}

\* Content bindings used by direct GetToken calls.
Bindings == {<<"a">>, <<"b">>}

\* Token strings the oracle may put in poToken ("" is the empty token).
OracleTokens == {"", "T1", "T2"}

\* expiresAt of a response sent at time t: 0 is the zero time.Time (the field
\* is absent); otherwise the oracle states an instant OracleLife hours ahead.
ServerExpiries(t) == {0, t + OracleLife}

\* What comes back from POST /get_pot: a transport error, or an HTTP response
\* with a status and a body that either does not decode as JSON or decodes
\* to the Response struct (with an error field, or with a poToken, possibly
\* empty, and an expiry).
Responses(t) ==
    {[kind |-> "neterr", status |-> 0, json |-> FALSE, error |-> "",
      poToken |-> "", expiresAt |-> 0]}
    \cup {[kind |-> "http", status |-> s, json |-> FALSE, error |-> "",
           poToken |-> "", expiresAt |-> 0] : s \in {200, 500}}
    \cup {[kind |-> "http", status |-> s, json |-> TRUE, error |-> "E",
           poToken |-> "", expiresAt |-> 0] : s \in {200, 500}}
    \cup [kind : {"http"}, status : {200, 500}, json : {TRUE},
          error : {""}, poToken : OracleTokens, expiresAt : ServerExpiries(t)]

\* time.Now().Before(cached.ExpiresAt)
BeforeMutLE(t, exp) == t <= exp
Before(t, exp) == t < exp

\* GetTokenWithOptions, the read-locked part: is there a servable entry?
CacheHit(c, b, t) ==
    /\ b \in DOMAIN c
    /\ Before(t, c[b].ExpiresAt)

\* p.cache[contentBinding] = &cachedToken{Token, ExpiresAt}
CachePutMutSkip(c, b, tok, exp) == c
CachePut(c, b, tok, exp) ==
    [x \in DOMAIN c \cup {b} |->
        IF x = b THEN [Token |-> tok, ExpiresAt |-> exp] ELSE c[x]]

EmptyCache == [x \in {} |-> [Token |-> "", ExpiresAt |-> 0]]

\* generateToken: the outcome for response r received at time t.
generateToken(r, t) ==
    IF r.kind = "neterr"
    THEN [err |-> "request", token |-> "", expiresAt |-> 0]
    ELSE IF ~r.json
    THEN [err |-> "decode", token |-> "", expiresAt |-> 0]
    ELSE IF r.error # ""
    THEN [err |-> "bgutil", token |-> "", expiresAt |-> 0]
    ELSE IF r.poToken = ""
    THEN [err |-> "empty", token |-> "", expiresAt |-> 0]
    ELSE [err |-> "", token |-> r.poToken,
          expiresAt |-> IF r.expiresAt = 0 THEN t + CacheTTL ELSE r.expiresAt]

\* strings.Split(s, "||")[0]: the part of s before its first "||" (all of s
\* when there is none).
SepIndex(s) ==
    LET I == {i \in 1..(Len(s) - 1) : s[i] = "|" /\ s[i + 1] = "|"}
    IN  IF I = {} THEN 0 ELSE CHOOSE i \in I : \A j \in I : i <= j

FirstPart(s) ==
    IF SepIndex(s) = 0 THEN s ELSE SubSeq(s, 1, SepIndex(s) - 1)

extractSessionIDMutFirst(dataSyncID) == FirstPart(dataSyncID)
extractSessionID(dataSyncID) ==
    IF dataSyncID = << >> THEN << >>
    ELSE IF FirstPart(dataSyncID) # << >> THEN FirstPart(dataSyncID)
    ELSE dataSyncID

\* GetGVSToken: the content binding it asks GetToken for.
GVSBinding(visitor, dataSyncID) ==
    IF dataSyncID # << >> THEN extractSessionID(dataSyncID) ELSE visitor

\* The part of a response that decides generateToken's outcome.
RespClass(r) ==
    IF r.kind = "neterr" THEN "neterr"
    ELSE IF ~r.json THEN "badjson"
    ELSE IF r.error # "" THEN "errfield"
    ELSE IF r.poToken = "" THEN "empty"
    ELSE "token"

\* A caller that has made no call yet.  binding, token and exp are the locals
\* of GetTokenWithOptions; the other fields record the call for the
\* properties: what the cache and the latest return looked like when the
\* call began, what the oracle answered, and what the call returned.
FreshReg ==
    [binding |-> << >>, visitor |-> << >>, dsid |-> << >>, gvs |-> FALSE,
     req |-> << >>, token |-> "", exp |-> 0,
     prevLive |-> FALSE, prevTok |-> "", sawExpired |-> FALSE,
     done |-> FALSE, ok |-> FALSE, res |-> "", src |-> "none",
     servedStale |-> FALSE, posted |-> FALSE, wrote |-> FALSE,
     stored |-> FALSE, rstatus |-> 0, rclass |-> "none",
     cleared |-> FALSE, servedPre |-> FALSE]

\* Whether the cache entry of binding b was stored by a call whose oracle
\* request was under way when an invalidation ran.
PreInvalidation(b) == b \in DOMAIN lastRet /\ lastRet[b].pre

\* GetTokenWithOptions up to the end of its read-locked section, for caller t
\* and binding b: a servable entry is returned at once, otherwise the caller
\* goes on to generateToken.
GetTokenBegin(t, b, v, d, isGVS) ==
    /\ tpc[t] = "idle"
    /\ ncalls' = ncalls + 1
    /\ LET live == b \in DOMAIN lastRet /\ now < lastRet[b].ExpiresAt
           base == [FreshReg EXCEPT
                      !.binding = b, !.visitor = v, !.dsid = d, !.gvs = isGVS,
                      !.prevLive = live,
                      !.prevTok = IF live THEN lastRet[b].Token ELSE "",
                      !.sawExpired = b \in DOMAIN cache
                                     /\ ~(now < cache[b].ExpiresAt)]
       IN  IF CacheHit(cache, b, now)
           THEN /\ treg' = [treg EXCEPT ![t] =
                      [base EXCEPT !.done = TRUE, !.ok = TRUE,
                                   !.res = cache[b].Token, !.src = "cache",
                                   !.servedStale = ~(now < cache[b].ExpiresAt),
                                   !.servedPre = PreInvalidation(b)]]
                /\ tpc' = tpc
                /\ lastRet' = [x \in DOMAIN lastRet \cup {b} |->
                      IF x = b
                      THEN [Token |-> cache[b].Token,
                            ExpiresAt |-> cache[b].ExpiresAt,
                            pre |-> PreInvalidation(b)]
                      ELSE lastRet[x]]
           ELSE /\ treg' = [treg EXCEPT ![t] = base]
                /\ tpc' = [tpc EXCEPT ![t] = "post"]
                /\ lastRet' = lastRet
    /\ UNCHANGED <<cache, now>>

\* Provider.GetToken(contentBinding)
GetToken(t) ==
    /\ ncalls < MaxCalls
    /\ \E b \in Bindings :
         \* callers and bindings are interchangeable: the first call of a
         \* behaviour is taken to be caller 1's, for the first binding
         /\ ncalls = 0 => (t = 1 /\ b = <<"a">>)
         /\ GetTokenBegin(t, b, << >>, << >>, FALSE)
    /\ UNCHANGED resVars

\* generateToken: the POST /get_pot request leaves, content_binding set to
\* the binding.
SendPost(t) ==
    /\ tpc[t] = "post"
    /\ treg' = [treg EXCEPT ![t].posted = TRUE, ![t].req = treg[t].binding]
    /\ tpc' = [tpc EXCEPT ![t] = "recv"]
    /\ UNCHANGED <<cache, now, lastRet, ncalls, resVars>>

\* generateToken: the response (or the transport error) arrives; on an error
\* GetTokenWithOptions returns it without touching the cache.
ReceiveFrom(t, R) ==
    /\ tpc[t] = "recv"
    /\ \E r \in R :
         LET g == generateToken(r, now)
         IN  IF g.err # ""
             THEN /\ treg' = [treg EXCEPT ![t].done = TRUE, ![t].ok = FALSE,
                                          ![t].res = "", ![t].src = g.err,
                                          ![t].cleared = FALSE,
                                          ![t].rstatus = r.status,
                                          ![t].rclass = RespClass(r)]
                  /\ tpc' = [tpc EXCEPT ![t] = "idle"]
             ELSE /\ treg' = [treg EXCEPT ![t].token = g.token,
                                          ![t].exp = g.expiresAt,
                                          ![t].rstatus = r.status,
                                          ![t].rclass = RespClass(r)]
                  /\ tpc' = [tpc EXCEPT ![t] = "store"]
    /\ UNCHANGED <<cache, now, lastRet, ncalls, resVars>>

ReceiveResponse(t) == ReceiveFrom(t, Responses(now))

\* GetTokenWithOptions, the write-locked part: cache the token and return it.
StoreToken(t) ==
    /\ tpc[t] = "store"
    /\ cache' = CachePut(cache, treg[t].binding, treg[t].token, treg[t].exp)
    /\ treg' = [treg EXCEPT
          ![t].done = TRUE, ![t].ok = TRUE,
          ![t].res = treg[t].token, ![t].src = "oracle",
          ![t].cleared = FALSE,
          ![t].wrote = (cache' # cache),
          ![t].stored = /\ treg[t].binding \in DOMAIN cache'
                        /\ cache'[treg[t].binding] =
                             [Token |-> treg[t].token, ExpiresAt |-> treg[t].exp]]
    /\ lastRet' = [x \in DOMAIN lastRet \cup {treg[t].binding} |->
          IF x = treg[t].binding
          THEN [Token |-> treg[t].token, ExpiresAt |-> treg[t].exp,
                pre |-> treg[t].cleared]
          ELSE lastRet[x]]
    /\ tpc' = [tpc EXCEPT ![t] = "idle"]
    /\ UNCHANGED <<now, ncalls, resVars>>

\* A call whose POST /get_pot has left and whose token is not stored yet.
InFlight(t) == tpc[t] \in {"recv", "store"}

\* Provider.ClearCache, called on a cache that holds something.
ClearCache ==
    /\ cache # EmptyCache
    /\ cache' = EmptyCache
    /\ lastRet' = EmptyCache
    /\ UNCHANGED <<now, tpc, treg, ncalls, resVars>>

\* An invalidation at any moment, also with calls in flight and nothing
\* cached yet (Provider.ClearCache; BgUtilGenerator.InvalidateCache is the
\* same code): the map is replaced under the write lock, and the calls in
\* flight, which hold no lock, go on.  The calls in flight are marked for
\* the record.
InvalidateCache ==
    /\ cache # EmptyCache \/ \E t \in Callers : InFlight(t) /\ ~treg[t].cleared
    /\ cache' = EmptyCache
    /\ lastRet' = EmptyCache
    /\ treg' = [t \in Callers |->
                  IF InFlight(t) THEN [treg[t] EXCEPT !.cleared = TRUE]
                  ELSE treg[t]]
    /\ UNCHANGED <<now, tpc, ncalls, resVars>>

\* The clock advances.
Tick ==
    /\ now < MaxTime
    /\ now' = now + 1
    /\ UNCHANGED <<cache, tpc, treg, lastRet, ncalls, resVars>>

TokInit ==
    /\ cache = EmptyCache
    /\ now = 1
    /\ tpc = [t \in Callers |-> "idle"]
    /\ treg = [t \in Callers |-> FreshReg]
    /\ lastRet = EmptyCache
    /\ ncalls = 0

TokNext ==
    \/ \E t \in Callers : GetToken(t)
    \/ \E t \in Callers : SendPost(t)
    \/ \E t \in Callers : ReceiveResponse(t)
    \/ \E t \in Callers : StoreToken(t)
    \/ ClearCache
    \/ Tick

\* The provider with invalidations at any moment.
InvalidateNext ==
    \/ \E t \in Callers : GetToken(t)
    \/ \E t \in Callers : SendPost(t)
    \/ \E t \in Callers : ReceiveResponse(t)
    \/ \E t \in Callers : StoreToken(t)
    \/ InvalidateCache
    \/ Tick

(***************************************************************************)
(* URLs, queries and the signature replay                                  *)
(*                                                                         *)
(* A URL string is a record: valid says whether url.Parse accepts it, host *)
(* whether it names a host, path is its path and q its query, a sequence   *)
(* of key/value pairs in textual order.  The empty string is EmptyURL.     *)
(***************************************************************************)
EmptyURL == [valid |-> TRUE, host |-> FALSE, path |-> << >>, q |-> << >>]

\* Byte order of the parameter names (url.Values.Encode sorts by key).
KeyRank(k) ==
    CASE k = "foo" -> 0
      [] k = "n" -> 1
      [] k = "pot" -> 2
      [] k = "s" -> 3
      [] k = "sig" -> 4
      [] k = "sp" -> 5
      [] OTHER -> 6

HasParam(u, k) == \E i \in 1..Len(u.q) : u.q[i].k = k

\* url.Values.Get: the first value of the key, empty when there is none.
QGet(q, k) ==
    IF \E i \in 1..Len(q) : q[i].k = k
    THEN q[CHOOSE i \in 1..Len(q) :
             q[i].k = k /\ \A j \in 1..(i - 1) : q[j].k # k].v
    ELSE << >>

RECURSIVE SelectPairs(_, _)
\* The pairs of q whose key is in K, in order.
SelectPairs(q, K) ==
    IF q = << >> THEN << >>
    ELSE IF Head(q).k \in K THEN <<Head(q)>> \o SelectPairs(Tail(q), K)
    ELSE SelectPairs(Tail(q), K)

RECURSIVE EncodeKeys(_, _)
\* url.Values.Encode over the keys K: keys in byte order, each key's values
\* in their order of appearance.
EncodeKeys(q, K) ==
    IF K = {} THEN << >>
    ELSE LET k == CHOOSE x \in K : \A y \in K : KeyRank(x) <= KeyRank(y)
         IN  SelectPairs(q, {k}) \o EncodeKeys(q, K \ {k})

\* q := parsedURL.Query(); q.Set(k, v); parsedURL.RawQuery = q.Encode()
QSet(q, k, v) ==
    LET others == SelectPairs(q, {q[i].k : i \in 1..Len(q)} \ {k})
        all == others \o <<[k |-> k, v |-> v]>>
    IN  EncodeKeys(all, {all[i].k : i \in 1..Len(all)})

RECURSIVE SeqsUpTo(_, _)
SeqsUpTo(S, n) ==
    IF n = 0 THEN {<< >>}
    ELSE LET P == SeqsUpTo(S, n - 1)
         IN  P \cup {Append(q, c) : q \in {x \in P : Len(x) = n - 1}, c \in S}

\* A signature token: op is token[0] ("" for the empty token), arg the value
\* of strconv.Atoi(token[1:]) and num whether Atoi succeeded.
Tok(op, arg) == [op |-> op, arg |-> arg, num |-> TRUE]

Reverse(a) == [i \in 1..Len(a) |-> a[Len(a) + 1 - i]]

Swap(a, i, j) == [a EXCEPT ![i] = a[j], ![j] = a[i]]

ApplyTokenMutLE(arr, tk) ==
    IF tk.op = "r" THEN Reverse(arr)
    ELSE IF tk.op \in {"s", "p"}
    THEN IF tk.num /\ tk.arg <= Len(arr)
         THEN SubSeq(arr, tk.arg + 1, Len(arr)) ELSE arr
    ELSE IF tk.op = "w" /\ tk.num
    THEN Swap(arr, 1, (tk.arg % Len(arr)) + 1)
    ELSE arr

\* One token applied to the working array (Go indexes from 0).
ApplyToken(arr, tk) ==
    IF tk.op = "r" THEN Reverse(arr)
    ELSE IF tk.op \in {"s", "p"}
    THEN IF tk.num /\ tk.arg < Len(arr)
         THEN SubSeq(arr, tk.arg + 1, Len(arr)) ELSE arr
    ELSE IF tk.op = "w" /\ tk.num
    THEN Swap(arr, 1, (tk.arg % Len(arr)) + 1)
    ELSE arr

RECURSIVE decipherSignature(_, _)
\* Decipherer.decipherSignature: the tokens applied in order.
decipherSignature(tokens, sig) ==
    IF tokens = << >> THEN sig
    ELSE decipherSignature(Tail(tokens), ApplyToken(sig, Head(tokens)))

\* A token whose operand strconv.Atoi rejects (no digits, or out of range).
BadTok(op) == [op |-> op, arg |-> 0, num |-> FALSE]

\* The swap computes pos % len(arr): an integer division by zero, a run-time
\* panic, when the working array is empty.
TokenPanics(arr, tk) == tk.op = "w" /\ tk.num /\ Len(arr) = 0

RECURSIVE replayPanics(_, _)
\* Whether decipherSignature panics before it returns.
replayPanics(tokens, sig) ==
    IF tokens = << >> THEN FALSE
    ELSE IF TokenPanics(sig, Head(tokens)) THEN TRUE
    ELSE replayPanics(Tail(tokens), ApplyToken(sig, Head(tokens)))

\* The token lists a Decipherer holds after extractSignatureTokens: "r" and
\* s, p, w followed by the digits the tokenizer matched.
SigTokens ==
    {Tok("r", 0)}
    \cup {Tok(op, n) : op \in {"s", "p", "w"}, n \in 0..MaxOperand}
    \cup {BadTok(op) : op \in {"s", "p", "w"}}

TokenLists == SeqsUpTo(SigTokens, MaxTokens)

SigChars == {"a", "b", "c"}

Signatures == SeqsUpTo(SigChars, MaxSigLen)

\* A Decipherer on which DecipherSignature has not been called.
NewReplay(tokens) ==
    [tokens |-> tokens, called |-> FALSE, sig |-> << >>, out |-> << >>,
     panicked |-> FALSE, legacyCalled |-> FALSE, legacyOut |-> << >>,
     legacyPanicked |-> FALSE]

\* No Decipherer held outside the resolver.
ReplayIdle == replay = NewReplay(<< >>)

\* Decipherer.DecipherSignature(sig): strings.Split(sig, "") is the empty
\* array for the empty signature; a panic leaves no return value.  The
\* method keeps nothing between calls, so one call is followed.
DecipherSignature ==
    \E sig \in Signatures :
        LET p == replayPanics(replay.tokens, sig) IN
        /\ ~replay.called
        /\ replay' = [replay EXCEPT
                !.called = TRUE, !.sig = sig, !.panicked = p,
                !.out = IF p THEN << >>
                        ELSE decipherSignature(replay.tokens, sig)]
        /\ UNCHANGED notReplay

RECURSIVE Pow2Mod(_, _)
\* 2^k modulo m.
Pow2Mod(k, m) == IF k = 0 THEN 1 % m ELSE (2 * Pow2Mod(k - 1, m)) % m

\* The legacy Decipher: Pos, _ := strconv.Atoi(Token[1:]) drops the error;
\* for digits out of range Atoi returns the largest int, 2^63 - 1, and
\* Pos % len(arr) is that number modulo the length.
LegacySwapPos(tk, len) ==
    IF tk.num THEN tk.arg % len ELSE (Pow2Mod(63, len) + len - 1) % len

\* The legacy Decipher, one token: a token shorter than two characters,
\* which is every "r", is skipped; the largest int is less than no length.
LegacyApplyToken(arr, tk) ==
    IF tk.op = "r" THEN arr
    ELSE IF tk.op \in {"s", "p"}
    THEN IF tk.num /\ tk.arg < Len(arr)
         THEN SubSeq(arr, tk.arg + 1, Len(arr)) ELSE arr
    ELSE IF tk.op = "w"
    THEN Swap(arr, 1, LegacySwapPos(tk, Len(arr)) + 1)
    ELSE arr

RECURSIVE Decipher(_, _)
\* The legacy Decipher(Tokens, Sig).
Decipher(Tokens, Sig) ==
    IF Tokens = << >> THEN Sig
    ELSE Decipher(Tail(Tokens), LegacyApplyToken(Sig, Head(Tokens)))

RECURSIVE LegacyPanics(_, _)
\* Whether the legacy Decipher panics: a swap on the empty array.
LegacyPanics(Tokens, Sig) ==
    IF Tokens = << >> THEN FALSE
    ELSE IF Head(Tokens).op = "w" /\ Len(Sig) = 0 THEN TRUE
    ELSE LegacyPanics(Tail(Tokens), LegacyApplyToken(Sig, Head(Tokens)))

\* The legacy Decipher called with the token list of the Decipherer and the
\* signature DecipherSignature was given.
LegacyDecipher ==
    LET p == LegacyPanics(replay.tokens, replay.sig) IN
    /\ replay.called /\ ~replay.legacyCalled
    /\ replay' = [replay EXCEPT
            !.legacyCalled = TRUE, !.legacyPanicked = p,
            !.legacyOut = IF p THEN << >>
                          ELSE Decipher(replay.tokens, replay.sig)]
    /\ UNCHANGED notReplay

DecipherInit == replay \in {NewReplay(ts) : ts \in TokenLists}

DecipherNext == DecipherSignature \/ LegacyDecipher

\* NSolver.Solve / Decipherer.SolveNChallenge for the solver kinds a player
\* script can give: no solver, a script that maps n, one whose evaluation
\* fails, and one that returns its input.
SolveNChallenge(solver, n) ==
    IF solver = "none" THEN [err |-> FALSE, out |-> n]
    ELSE IF solver = "fails" THEN [err |-> TRUE, out |-> n]
    ELSE IF solver = "maps" THEN [err |-> FALSE, out |-> <<"z">> \o n]
    ELSE [err |-> FALSE, out |-> n]

\* The n values handed to Solve.
NInputs == {<<"x">>, <<"y">>, <<"q">>}

\* What running the extracted nFunction on one n gives: an error from the
\* JavaScript runtime, a nil/undefined/null result, or a string.
Scripts == [NInputs -> {"fails", "nil", "maps"}]

\* NewNSolver: nFuncCode is empty when no pattern found the function.
NewNSolver(hasFunc, script) ==
    [hasFunc |-> hasFunc, script |-> script, calls |-> 0, failed |-> FALSE,
     afterFail |-> FALSE, ran |-> FALSE, n |-> << >>, out |-> << >>,
     err |-> FALSE]

NoScript == [x \in NInputs |-> "nil"]

\* No NSolver held outside the resolver.
SolverIdle == nsolver = NewNSolver(FALSE, NoScript)

\* NSolver.Solve(n): with a function extracted the script is run on every
\* call; an error returns n with the error, a nil result returns n.
Solve ==
    \E n \in NInputs :
        LET r == SolveNChallenge(IF nsolver.hasFunc THEN nsolver.script[n]
                                 ELSE "none", n) IN
        /\ nsolver.calls < MaxSolves
        /\ nsolver' = [nsolver EXCEPT
                !.calls = @ + 1, !.n = n, !.out = r.out, !.err = r.err,
                !.ran = nsolver.hasFunc, !.afterFail = nsolver.failed,
                !.failed = @ \/ r.err]
        /\ UNCHANGED notSolver

SolverInit ==
    nsolver \in {NewNSolver(FALSE, NoScript)}
                \cup {NewNSolver(TRUE, sc) : sc \in Scripts}

SolverNext == Solve

(***************************************************************************)
(* stream/handler.go: Handler.Download                                     *)
(***************************************************************************)
\* NewHandler: ChunkSize is 10 MiB, here in units of 5 MiB.
ChunkSize == 2

\* NewHandler: MaxRetries
MaxRetries == 3

\* A Handler on which Download has not been called.  log lists the HTTP
\* requests made: the byte range asked for (ranged FALSE for a plain GET)
\* and the seconds waited before the request.
NoDownload ==
    [pc |-> "idle", hasURL |-> FALSE, L |-> 0, downloaded |-> 0,
     chunkEnd |-> 0, attempt |-> 0, waited |-> 0, cancelled |-> FALSE,
     err |-> "none", log |-> << >>, w |-> << >>]

DownloadIdle == dl = NoDownload

\* The bytes a to b of the stream, each named by its offset.
Bytes(a, b) == [i \in 1..(b - a + 1) |-> a + i - 1]

\* Handler.Download(ctx, format, w)
Download ==
    /\ dl.pc = "idle"
    /\ \E hasURL \in BOOLEAN, L \in 0..MaxLength :
         dl' = IF ~hasURL
               THEN [dl EXCEPT !.pc = "done", !.err = "nourl", !.L = L]
               ELSE IF L > 0
               THEN [dl EXCEPT !.pc = "loop", !.hasURL = TRUE, !.L = L,
                               !.downloaded = 0]
               ELSE [dl EXCEPT !.pc = "simple", !.hasURL = TRUE, !.L = L]
    /\ UNCHANGED notDownload

\* downloadSimple: one GET without a Range header.
downloadSimple ==
    /\ dl.pc = "simple"
    /\ \E ok \in BOOLEAN :
         /\ dl.cancelled => ~ok
         /\ dl' = [dl EXCEPT
                !.pc = "done", !.err = IF ok THEN "none" ELSE "request",
                !.log = Append(@, [ranged |-> FALSE, start |-> 0, end |-> 0,
                                   wait |-> 0, ok |-> ok])]
    /\ UNCHANGED notDownload

\* downloadWithRanges: the head of one loop iteration.
downloadWithRanges ==
    /\ dl.pc = "loop"
    /\ dl' = IF ~(dl.downloaded < dl.L)
             THEN [dl EXCEPT !.pc = "done", !.err = "none"]
             ELSE IF dl.cancelled
             THEN [dl EXCEPT !.pc = "done", !.err = "ctx"]
             ELSE LET e == dl.downloaded + ChunkSize - 1 IN
                  [dl EXCEPT !.pc = "attempt", !.attempt = 0, !.waited = 0,
                             !.chunkEnd = IF e >= dl.L THEN dl.L - 1 ELSE e]
    /\ UNCHANGED notDownload

\* downloadChunk: the head of one loop iteration.
downloadChunk ==
    /\ dl.pc = "attempt"
    /\ dl' = IF ~(dl.attempt < MaxRetries)
             THEN [dl EXCEPT !.pc = "done", !.err = "retries"]
             ELSE IF dl.attempt > 0 THEN [dl EXCEPT !.pc = "wait"]
             ELSE [dl EXCEPT !.pc = "request"]
    /\ UNCHANGED notDownload

\* downloadChunk: the select between ctx.Done() and the timer of attempt
\* seconds; with the context cancelled either case may be taken.
WaitBeforeRetry ==
    /\ dl.pc = "wait"
    /\ \/ /\ dl.cancelled
          /\ dl' = [dl EXCEPT !.pc = "done", !.err = "ctx"]
       \/ dl' = [dl EXCEPT !.pc = "request", !.waited = dl.attempt]
    /\ UNCHANGED notDownload

\* doChunkRequest and what downloadChunk and downloadWithRanges do with its
\* result; a request on a cancelled context fails.  io.Copy writes the body
\* to w as it arrives: a request that succeeds has written the whole range,
\* one that fails has written the first copied bytes of it, none when it
\* failed before the body (connection error, unexpected status).
doChunkRequest ==
    /\ dl.pc = "request"
    /\ \E ok \in BOOLEAN, copied \in 0..(dl.chunkEnd - dl.downloaded) :
         /\ dl.cancelled => ~ok
         /\ ok => copied = 0
         /\ LET entry == [ranged |-> TRUE, start |-> dl.downloaded,
                          end |-> dl.chunkEnd, wait |-> dl.waited, ok |-> ok]
            IN  dl' = IF ok
                      THEN [dl EXCEPT !.pc = "loop", !.log = Append(@, entry),
                                      !.downloaded = dl.chunkEnd + 1,
                                      !.w = @ \o Bytes(dl.downloaded,
                                                       dl.chunkEnd)]
                      ELSE [dl EXCEPT !.pc = "attempt",
                                      !.log = Append(@, entry),
                                      !.attempt = @ + 1,
                                      !.w = @ \o Bytes(dl.downloaded,
                                              dl.downloaded + copied - 1)]
    /\ UNCHANGED notDownload

\* The caller cancels ctx while Download runs.
CancelContext ==
    /\ dl.pc \notin {"idle", "done"}
    /\ ~dl.cancelled
    /\ dl' = [dl EXCEPT !.cancelled = TRUE]
    /\ UNCHANGED notDownload

DownloadNext ==
    \/ Download
    \/ downloadSimple
    \/ downloadWithRanges
    \/ downloadChunk
    \/ WaitBeforeRetry
    \/ doChunkRequest
    \/ CancelContext

(***************************************************************************)
(* client.go: rewriting one format                                         *)
(***************************************************************************)
NoDecipherer == [built |-> FALSE, sigTokens |-> << >>, nSolver |-> "none"]

\* Client.processNParameter
processNParameterMutNever(dec, u) == u

processNParameter(dec, u) ==
    IF ~dec.built THEN u
    ELSE IF ~u.valid THEN u
    ELSE IF QGet(u.q, "n") = << >> THEN u
    ELSE LET r == SolveNChallenge(dec.nSolver, QGet(u.q, "n"))
         IN  IF r.err \/ r.out = QGet(u.q, "n") THEN u
             ELSE [u EXCEPT !.q = QSet(u.q, "n", r.out)]

\* Client.addPOTokenToURL (a token is opaque: as a parameter value it is the
\* one-element sequence holding it).
addPOTokenToURL(u, poToken) ==
    IF ~u.valid THEN u ELSE [u EXCEPT !.q = QSet(u.q, "pot", <<poToken>>)]

\* The empty signatureCipher string.
NoCipher == [ok |-> TRUE, present |-> FALSE, url |-> EmptyURL, s |-> << >>,
             sp |-> ""]

\* Client.decipherURL: ok says whether url.ParseQuery accepts the cipher.
decipherURLMutKeepS(dec, c) ==
    IF ~c.ok THEN [err |-> TRUE, url |-> EmptyURL]
    ELSE IF c.s # << >> /\ dec.built
    THEN IF ~c.url.valid THEN [err |-> TRUE, url |-> EmptyURL]
         ELSE [err |-> FALSE,
               url |-> [c.url EXCEPT !.q =
                  QSet(QSet(c.url.q, "s", c.s),
                       IF c.sp = "" THEN "sig" ELSE c.sp,
                       decipherSignature(dec.sigTokens, c.s))]]
    ELSE [err |-> FALSE, url |-> c.url]

decipherURL(dec, c) ==
    IF ~c.ok THEN [err |-> TRUE, url |-> EmptyURL]
    ELSE IF c.s # << >> /\ dec.built
    THEN IF ~c.url.valid THEN [err |-> TRUE, url |-> EmptyURL]
         ELSE [err |-> FALSE,
               url |-> [c.url EXCEPT !.q =
                  QSet(c.url.q, IF c.sp = "" THEN "sig" ELSE c.sp,
                       decipherSignature(dec.sigTokens, c.s))]]
    ELSE [err |-> FALSE, url |-> c.url]

\* Client.parseFormat: the stream URL of raw format sf, or an error.
AttachTokenMutNever(u, gvsPOToken) == u
AttachTokenMutAlways(u, gvsPOToken) == addPOTokenToURL(u, "T1")
AttachToken(u, gvsPOToken) ==
    IF gvsPOToken # "" THEN addPOTokenToURL(u, gvsPOToken) ELSE u

parseFormatMutKeepAll(dec, sf, gvsPOToken) ==
    LET got == IF sf.url # EmptyURL THEN [err |-> FALSE, url |-> sf.url]
               ELSE IF sf.cipher.present THEN decipherURL(dec, sf.cipher)
               ELSE [err |-> TRUE, url |-> EmptyURL]
    IN  [err |-> FALSE, itag |-> sf.itag,
         url |-> AttachToken(processNParameter(dec, got.url), gvsPOToken)]

parseFormat(dec, sf, gvsPOToken) ==
    LET got == IF sf.url # EmptyURL THEN [err |-> FALSE, url |-> sf.url]
               ELSE IF sf.cipher.present THEN decipherURL(dec, sf.cipher)
               ELSE [err |-> TRUE, url |-> EmptyURL]
    IN  IF got.err THEN [err |-> TRUE, itag |-> sf.itag, url |-> EmptyURL]
        ELSE [err |-> FALSE, itag |-> sf.itag,
              url |-> AttachToken(processNParameter(dec, got.url), gvsPOToken)]

RECURSIVE ParseAll(_, _, _, _)
\* Client.parsePlayerResponse, the loop over allFormats from position i on:
\* formats that fail are left out; src remembers the position in allFormats.
ParseAll(dec, all, gvsPOToken, i) ==
    IF i > Len(all) THEN << >>
    ELSE LET f == parseFormat(dec, all[i], gvsPOToken)
         IN  (IF f.err THEN << >>
              ELSE <<[itag |-> f.itag, url |-> f.url, src |-> i]>>)
             \o ParseAll(dec, all, gvsPOToken, i + 1)

(***************************************************************************)
(* GetGVSToken as a function of its inputs: one call on a fresh Provider,  *)
(* with visitorData and dataSyncID drawn from bounded sets.                *)
(***************************************************************************)
IdChars == {"a", "|"}

DataSyncIDs == SeqsUpTo(IdChars, MaxIdLen)
VisitorIDs == {<< >>, <<"v">>}

\* Provider.GetGVSToken(visitorData, dataSyncID)
GetGVSToken(t) ==
    /\ ncalls = 0
    /\ \E v \in VisitorIDs, d \in DataSyncIDs :
         GetTokenBegin(t, GVSBinding(v, d), v, d, TRUE)
    /\ UNCHANGED resVars

BindNext ==
    \/ GetGVSToken(1)
    \/ SendPost(1)
    \/ ReceiveResponse(1)
    \/ StoreToken(1)

(***************************************************************************)
(* innertube: the client catalogue                                         *)
(*                                                                         *)
(* Of a ClientConfig the resolver reads the size of GVSPoTokenPolicies,    *)
(* whether one of its entries is Required, and PlayerPoTokenPolicy; name   *)
(* is the catalogue variable.                                              *)
(***************************************************************************)
ClientConfig(name, nPolicies, gvsRequired, playerRequired) ==
    [name |-> name, gvsPolicies |-> nPolicies, gvsRequired |-> gvsRequired,
     playerRequired |-> playerRequired]

Web == ClientConfig("Web", 3, TRUE, FALSE)
WebSafari == ClientConfig("WebSafari", 3, TRUE, FALSE)
AndroidSDKLess == ClientConfig("AndroidSDKLess", 3, FALSE, FALSE)
TV == ClientConfig("TV", 3, FALSE, FALSE)
TVDowngraded == ClientConfig("TVDowngraded", 3, FALSE, FALSE)

\* A caller-made configuration with an empty GVSPoTokenPolicies map.
Bare == ClientConfig("Bare", 0, FALSE, FALSE)

DefaultClients == <<TV, AndroidSDKLess, Web>>

DefaultAuthenticatedClients == <<TVDowngraded, WebSafari, Web>>

\* ClientConfig.RequiresPoToken
RequiresPoToken(cfg) == cfg.gvsRequired \/ cfg.playerRequired

(***************************************************************************)
(* client.go: construction                                                 *)
(***************************************************************************)
NoAuth == [present |-> FALSE, loggedIn |-> FALSE, visitor |-> << >>,
           dataSyncID |-> << >>]

\* The Auth values handed to NewClientWithOptions: none, cookies without a
\* login cookie, cookies of a signed-in account whose DataSyncID is known.
\* The dataSyncId the server states for the logged-in account in its API
\* responses (what ExtractDataSyncIDFromResponse would read).
ServerDataSyncID == <<"a", "|", "|">>

\* Auth as the constructors leave it (NewAuth, NewAuthFromString: cookies,
\* VisitorData, no DataSyncID) and, last, after the caller's own
\* SetDataSyncID.
Auths ==
    {NoAuth,
     [present |-> TRUE, loggedIn |-> FALSE, visitor |-> <<"v">>,
      dataSyncID |-> << >>],
     [present |-> TRUE, loggedIn |-> TRUE, visitor |-> <<"v">>,
      dataSyncID |-> << >>],
     [present |-> TRUE, loggedIn |-> TRUE, visitor |-> <<"v">>,
      dataSyncID |-> ServerDataSyncID]}

\* A CookieFile or CookieString option: whether it is given (non-empty),
\* whether NewAuthFromFile fails on it, and the Auth its cookies make.
NoCookies == [given |-> FALSE, err |-> FALSE, auth |-> NoAuth]

\* ClientOptions: Clients (empty when not given) and Auth, no cookie option.
ClientOptions ==
    {o \in [Clients : {<< >>, <<Bare, Web>>}, Auth : Auths,
            CookieFile : {NoCookies}, CookieString : {NoCookies}] :
        o.Clients # << >> => o.Auth = NoAuth}

\* NewClientWithOptions, one of its three auth blocks: a is assigned to
\* c.Auth, and the authenticated list is installed when a is logged in and
\* opts.Clients is empty.
InstallAuth(c, a, opts) ==
    [Auth |-> a,
     Clients |-> IF a.loggedIn /\ opts.Clients = << >>
                 THEN DefaultAuthenticatedClients ELSE c.Clients]

\* NewClientWithOptions: c.Clients and c.Auth after the blocks for
\* opts.Clients, opts.Auth, opts.CookieFile and opts.CookieString, in the
\* order of the code.
Constructed(opts) ==
    LET c0 == [Auth |-> NoAuth,
               Clients |-> IF opts.Clients # << >> THEN opts.Clients
                           ELSE DefaultClients]
        c1 == IF opts.Auth.present THEN InstallAuth(c0, opts.Auth, opts)
              ELSE c0
        c2 == IF opts.CookieFile.given /\ ~opts.CookieFile.err
              THEN InstallAuth(c1, opts.CookieFile.auth, opts) ELSE c1
    IN  IF opts.CookieString.given
        THEN InstallAuth(c2, opts.CookieString.auth, opts) ELSE c2

\* NewClient
NewClient ==
    /\ clients = DefaultClients
    /\ auth = NoAuth
    /\ decipherer = NoDecipherer
    /\ playerURL = ""
    /\ playerCode = ""
    /\ visitorData = << >>

\* NewClientWithOptions(opts)
NewClientWithOptions(opts) ==
    /\ clients = Constructed(opts).Clients
    /\ auth = Constructed(opts).Auth
    /\ decipherer = NoDecipherer
    /\ playerURL = ""
    /\ playerCode = ""
    /\ visitorData = << >>

(***************************************************************************)
(* What the servers may answer                                             *)
(***************************************************************************)
\* Player scripts: the URL a page names, the code behind it, and what
\* NewDecipherer extracts from that code.
PlayerURLs == {"U1", "U2"}

\* What one acquisition fetch comes back with: a transport or read error, a
\* body in which no pattern matches, or a body that names a player URL.
PlayerFetches ==
    {[res |-> "err", url |-> ""], [res |-> "nomatch", url |-> ""],
     [res |-> "url", url |-> "U1"], [res |-> "url", url |-> "U2"]}

\* The acquisition sources in the order the code visits them.
Sources == <<"iframe_api", "watch", "embed">>

\* What the source answers: iframe_api names U1; the watch page and the
\* embed page name U2.
FetchesOf(src) ==
    {r \in PlayerFetches :
        r.res = "url" => r.url = (IF src = "iframe_api" THEN "U1" ELSE "U2")}

\* The visitor data ExtractVisitorDataFromHTML finds on the watch page.
PageVisitorData == <<"w">>

CodeOf(u) == IF u = "U1" THEN "K1" ELSE "K2"

\* decipher.NewDecipherer(playerCode); it returns no error.
NewDecipherer(code) ==
    IF code = "K1"
    THEN [built |-> TRUE, sigTokens |-> <<Tok("r", 0), Tok("s", 1)>>,
          nSolver |-> "maps"]
    ELSE [built |-> TRUE, sigTokens |-> << >>, nSolver |-> "fails"]

U(q) == [valid |-> TRUE, host |-> TRUE, path |-> <<"videoplayback">>, q |-> q]

\* A string url.Parse rejects.
BadURL == [valid |-> FALSE, host |-> FALSE, path |-> << >>, q |-> << >>]

\* The url field of a raw format: no query, or one parameter.
PlainURLs ==
    {U(<< >>), BadURL}
    \cup {U(<<[k |-> k, v |-> <<"x">>]>>) : k \in {"n", "s", "pot"}}

\* The signatureCipher field of a raw format, as url.ParseQuery sees it.
Ciphers ==
    {c \in [ok : {TRUE}, present : {TRUE}, url : {U(<< >>), BadURL, EmptyURL},
            s : {<< >>, <<"a", "b", "c">>}, sp : {"", "s"}] :
        c.sp = "s" => (c.url = U(<< >>) /\ c.s # << >>)}
    \cup {[ok |-> FALSE, present |-> TRUE, url |-> EmptyURL, s |-> << >>,
           sp |-> ""]}

RawFormats ==
    {[itag |-> 18, url |-> u, cipher |-> NoCipher] : u \in PlainURLs}
    \cup {[itag |-> 18, url |-> EmptyURL, cipher |-> c] :
            c \in Ciphers \cup {NoCipher}}
    \cup {[itag |-> 18, url |-> U(<< >>),
           cipher |-> [ok |-> TRUE, present |-> TRUE, url |-> U(<< >>),
                       s |-> <<"a", "b", "c">>, sp |-> ""]]}

RawLists == UNION {[1..n -> RawFormats] : n \in 0..MaxFormats}

Reasons == {"R1", "R2"}

\* The streamingData of an OK response: raw formats split between formats
\* and adaptiveFormats.
StreamingData ==
    UNION {{[formats |-> SubSeq(l, 1, k),
             adaptiveFormats |-> SubSeq(l, k + 1, Len(l))] : k \in 0..Len(l)} :
           l \in RawLists}

\* What POST /youtubei/v1/player gives back: a transport error, a body that
\* is not JSON, or a PlayerResponse with its playabilityStatus.
PlayerResponses ==
    {[kind |-> k, status |-> "", reason |-> ""] : k \in {"neterr", "badjson"}}
    \cup {[kind |-> "json", status |-> "LOGIN_REQUIRED", reason |-> r] :
            r \in Reasons}
    \cup {[kind |-> "json", status |-> "OK", reason |-> ""]}

(***************************************************************************)
(* client.go: GetVideo                                                     *)
(***************************************************************************)
Resolvers == {1, 2}

NoErr == [kind |-> "none", status |-> "", reason |-> ""]

NoVideo == [ok |-> FALSE, client |-> 0, formats |-> << >>]

\* The locals of one GetVideo call (idx, lastErr, the token decisions) and
\* the record of its run: attempts lists the player requests in the order
\* they were issued, each with its outcome; gvsPing is the outcome of the
\* ping in getGVSPOToken and sawUp whether any ping of the call succeeded;
\* all is allFormats; built says that this call assigned c.Decipherer.
FreshRun ==
    [idx |-> 0, lastErr |-> NoErr, attempts |-> << >>,
     askedPlayer |-> FALSE, askedGVS |-> FALSE, gvsPing |-> "none",
     sawUp |-> FALSE,
     all |-> << >>, gvsPOToken |-> "", video |-> NoVideo, err |-> NoErr,
     wrapped |-> "none", purl |-> "", built |-> FALSE, returned |-> FALSE,
     fetches |-> << >>]

\* range c.Clients: the position after i.
NextIndexMutSkip(i) == i + 2
NextIndex(i) == i + 1

\* lastErr = err
KeepErrMutFirst(old, new) == IF old = NoErr THEN new ELSE old
KeepErr(old, new) == new

\* GetVideo up to its first wait: extractVideoID, then ensurePlayer's test
\* of c.Decipherer; with a decipherer in place the loop begins.
GetVideoStart(g) ==
    /\ gpc[g] = "idle"
    /\ ~greg[g].returned
    /\ \E valid \in BOOLEAN :
         IF ~valid
         THEN /\ greg' = [greg EXCEPT ![g].returned = TRUE,
                              ![g].err = [NoErr EXCEPT !.kind = "invalid"]]
              /\ gpc' = gpc
         ELSE IF decipherer.built
         THEN /\ greg' = [greg EXCEPT ![g].idx = 1]
              /\ gpc' = [gpc EXCEPT ![g] = "token"]
         ELSE /\ greg' = greg
              /\ gpc' = [gpc EXCEPT ![g] = "playerURL"]
    /\ UNCHANGED <<tokVars, cfgVars, playerVars>>

\* Whether an acquisition fetch carries the Cookie header: the Go client
\* uses setBasicRequestHeaders and an http.Client without a jar, the
\* TypeScript client getRequestHeaders, which adds the cookies of Auth.
RequestCookies == IF port = "ts" THEN auth.present ELSE FALSE

\* One acquisition fetch of goroutine g at source number i, answered by r:
\* an error ends ensurePlayer and GetVideo with it, a player URL is assigned
\* to c.PlayerURL and c.PlayerID, and with no match the next source follows
\* (after the embed page the error "player URL not found").
FetchSource(g, i, r, pcNext) ==
    LET entry == [src |-> Sources[i], cookies |-> RequestCookies,
                  res |-> r.res]
        log == Append(greg[g].fetches, entry)
    IN  IF r.res = "url"
        THEN /\ playerURL' = r.url
             /\ gpc' = [gpc EXCEPT ![g] = "playerCode"]
             /\ greg' = [greg EXCEPT ![g].purl = r.url, ![g].fetches = log]
        ELSE IF r.res = "nomatch" /\ i < Len(Sources)
        THEN /\ gpc' = [gpc EXCEPT ![g] = pcNext]
             /\ greg' = [greg EXCEPT ![g].fetches = log]
             /\ UNCHANGED playerURL
        ELSE /\ greg' = [greg EXCEPT ![g].returned = TRUE,
                              ![g].fetches = log,
                              ![g].err = [NoErr EXCEPT !.kind = "player"]]
             /\ gpc' = [gpc EXCEPT ![g] = "idle"]
             /\ UNCHANGED playerURL

\* Client.fetchPlayerURL: GET iframe_api.
FetchPlayerURL(g) ==
    /\ gpc[g] = "playerURL"
    /\ \E r \in FetchesOf(Sources[1]) : FetchSource(g, 1, r, "watchPage")
    /\ UNCHANGED <<tokVars, cfgVars, decipherer, playerCode, visitorData>>

\* Client.fetchPlayerURLFromPage: GET the watch page; once the body is read
\* its visitor data is kept when c.VisitorData was empty.
fetchPlayerURLFromPage(g) ==
    /\ gpc[g] = "watchPage"
    /\ \E r \in FetchesOf(Sources[2]) :
         /\ FetchSource(g, 2, r, "embedPage")
         /\ visitorData' = IF r.res # "err" /\ visitorData = << >>
                            THEN PageVisitorData ELSE visitorData
    /\ UNCHANGED <<tokVars, cfgVars, decipherer, playerCode>>

\* Client.fetchPlayerURLFromEmbed: GET the embed page.
fetchPlayerURLFromEmbed(g) ==
    /\ gpc[g] = "embedPage"
    /\ \E r \in FetchesOf(Sources[3]) : FetchSource(g, 3, r, "idle")
    /\ UNCHANGED <<tokVars, cfgVars, decipherer, playerCode, visitorData>>

\* ensurePlayer: fetchPlayerCode(playerURL) returns; on success c.PlayerCode
\* and c.Decipherer are assigned and GetVideo enters its loop, the locals of
\* the acquisition gone.
FetchPlayerCode(g) ==
    /\ gpc[g] = "playerCode"
    /\ \/ /\ greg' = [greg EXCEPT ![g].returned = TRUE,
                          ![g].err = [NoErr EXCEPT !.kind = "player"]]
          /\ gpc' = [gpc EXCEPT ![g] = "idle"]
          /\ UNCHANGED <<playerCode, decipherer>>
       \/ /\ playerCode' = CodeOf(greg[g].purl)
          /\ decipherer' = NewDecipherer(playerCode')
          /\ greg' = [greg EXCEPT ![g].idx = 1, ![g].built = TRUE,
                               ![g].fetches = << >>]
          /\ gpc' = [gpc EXCEPT ![g] = "token"]
    /\ UNCHANGED <<tokVars, cfgVars, playerURL, visitorData>>

\* Client.getVisitorData
getVisitorData ==
    IF visitorData # << >> THEN visitorData
    ELSE IF auth.present THEN auth.visitor
    ELSE << >>

\* The content binding of a player token: the video id.
VideoID == <<"V">>

\* fetchWithClient, getPlayerPOToken for the client at idx: nothing is asked
\* of the provider unless the client requires a token and the ping succeeds.
GetPlayerPOToken(g) ==
    /\ gpc[g] = "token"
    /\ gpc' = [gpc EXCEPT ![g] = "send"]
    /\ IF ~RequiresPoToken(clients[greg[g].idx])
       THEN /\ greg' = [greg EXCEPT ![g].askedPlayer = FALSE]
            /\ UNCHANGED tokVars
       ELSE \E up \in BOOLEAN :
              IF ~up
              THEN /\ greg' = [greg EXCEPT ![g].askedPlayer = FALSE]
                   /\ UNCHANGED tokVars
              ELSE /\ greg' = [greg EXCEPT ![g].askedPlayer = TRUE,
                                   ![g].sawUp = TRUE]
                   /\ GetTokenBegin(g, VideoID, << >>, << >>, FALSE)
    /\ UNCHANGED <<cfgVars, playerVars>>

\* What a finished provider call handed back: the token, "" on an error.
\* (The caller's register is cleared once the result has been taken.)
TokenOf(asked, r) == IF asked /\ r.ok THEN r.res ELSE ""

\* fetchWithClient: the player request for the client at idx leaves, with
\* serviceIntegrityDimensions.poToken when a player token was obtained.
SendPlayerRequest(g) ==
    /\ gpc[g] = "send"
    /\ tpc[g] = "idle"
    /\ greg' = [greg EXCEPT ![g].attempts = Append(@,
          [client |-> greg[g].idx, out |-> "pending",
           poToken |-> TokenOf(greg[g].askedPlayer, treg[g]),
           status |-> "", reason |-> ""])]
    /\ gpc' = [gpc EXCEPT ![g] = "recv"]
    /\ treg' = [treg EXCEPT ![g] = FreshReg]
    /\ UNCHANGED <<cache, now, tpc, lastRet, ncalls, cfgVars, playerVars>>

\* The error fetchWithClient returns for response r (NoErr for none).
ResponseErr(r) ==
    IF r.kind = "neterr" THEN [NoErr EXCEPT !.kind = "request"]
    ELSE IF r.kind = "badjson" THEN [NoErr EXCEPT !.kind = "parse"]
    ELSE IF r.status # "OK"
    THEN [kind |-> "unplayable", status |-> r.status, reason |-> r.reason]
    ELSE NoErr

\* fetchWithClient: the response arrives and its playabilityStatus is read
\* (streamingData is drawn where parsePlayerResponse reads it).  A failure is kept as lastErr and
\* the loop moves on, returning "all clients failed" after the last client;
\* an OK response goes on to getGVSPOToken.
ReceivePlayerResponse(g) ==
    /\ gpc[g] = "recv"
    /\ \E r \in PlayerResponses :
         LET e == ResponseErr(r)
             n == Len(greg[g].attempts)
             att == [greg[g].attempts EXCEPT
                       ![n].out = IF e = NoErr THEN "ok" ELSE e.kind,
                       ![n].status = r.status, ![n].reason = r.reason]
             last == KeepErr(greg[g].lastErr, e)
             next == NextIndex(greg[g].idx)
         IN  IF e = NoErr
             THEN /\ greg' = [greg EXCEPT ![g].attempts = att]
                  /\ gpc' = [gpc EXCEPT ![g] = "gvs"]
             ELSE IF next <= Len(clients)
             THEN /\ greg' = [greg EXCEPT ![g].attempts = att,
                                  ![g].lastErr = last, ![g].idx = next]
                  /\ gpc' = [gpc EXCEPT ![g] = "token"]
             ELSE /\ greg' = [greg EXCEPT ![g].attempts = att,
                                  ![g].lastErr = last, ![g].idx = next,
                                  ![g].returned = TRUE,
                                  ![g].err = [kind |-> "allfailed",
                                              status |-> last.status,
                                              reason |-> last.reason],
                                  ![g].wrapped = last.kind]
                  /\ gpc' = [gpc EXCEPT ![g] = "idle"]
    /\ UNCHANGED <<tokVars, cfgVars, playerVars>>

\* parsePlayerResponse, getGVSPOToken: nothing is asked of the provider when
\* the client has no GVS policy or the ping fails.
GetGVSPOToken(g) ==
    /\ gpc[g] = "gvs"
    /\ gpc' = [gpc EXCEPT ![g] = "gvsret"]
    /\ IF clients[greg[g].idx].gvsPolicies = 0
       THEN /\ greg' = [greg EXCEPT ![g].askedGVS = FALSE]
            /\ UNCHANGED tokVars
       ELSE \E up \in BOOLEAN :
              IF ~up
              THEN /\ greg' = [greg EXCEPT ![g].askedGVS = FALSE,
                                   ![g].gvsPing = "down"]
                   /\ UNCHANGED tokVars
              ELSE /\ greg' = [greg EXCEPT ![g].askedGVS = TRUE,
                                   ![g].gvsPing = "up", ![g].sawUp = TRUE]
                   /\ LET v == getVisitorData
                          d == IF auth.present /\ auth.loggedIn
                               THEN auth.dataSyncID ELSE << >>
                      IN  GetTokenBegin(g, GVSBinding(v, d), v, d, TRUE)
    /\ UNCHANGED <<cfgVars, playerVars>>

\* parsePlayerResponse: getGVSPOToken has returned; its error is dropped
\* and gvsPOToken is the token or "".
GVSPOTokenReturned(g) ==
    /\ gpc[g] = "gvsret"
    /\ tpc[g] = "idle"
    /\ greg' = [greg EXCEPT
          ![g].gvsPOToken = TokenOf(greg[g].askedGVS, treg[g])]
    /\ gpc' = [gpc EXCEPT ![g] = "parse"]
    /\ treg' = [treg EXCEPT ![g] = FreshReg]
    /\ UNCHANGED <<cache, now, tpc, lastRet, ncalls, cfgVars, playerVars>>

\* parsePlayerResponse: allFormats is formats followed by adaptiveFormats;
\* the formats are rewritten and the Video returned.
ParseFormats(g) ==
    /\ gpc[g] = "parse"
    /\ \E sd \in StreamingData :
         LET all == sd.formats \o sd.adaptiveFormats
         IN  greg' = [greg EXCEPT
                ![g].all = all,
                ![g].returned = TRUE,
                ![g].video = [ok |-> TRUE, client |-> greg[g].idx,
                              formats |-> ParseAll(decipherer, all,
                                                   greg[g].gvsPOToken, 1)]]
    /\ gpc' = [gpc EXCEPT ![g] = "idle"]
    /\ UNCHANGED <<tokVars, cfgVars, playerVars>>

\* The oracle's answers while a video is resolved: a transport error, an
\* empty token, or the token T1 without a stated expiry.
ResolveResponses ==
    {r \in Responses(now) :
        /\ r.status # 500
        /\ r.kind = "http" =>
              (r.json /\ r.error = "" /\ r.expiresAt = 0 /\ r.poToken # "T2")}

ReceiveOracle(t) == ReceiveFrom(t, ResolveResponses)

ResInit ==
    /\ gpc = [g \in Resolvers |-> "idle"]
    /\ greg = [g \in Resolvers |-> FreshRun]

\* One goroutine resolving one video on a client built from any options.
ResolveNext ==
    \/ GetVideoStart(1)
    \/ FetchPlayerURL(1)
    \/ fetchPlayerURLFromPage(1)
    \/ fetchPlayerURLFromEmbed(1)
    \/ FetchPlayerCode(1)
    \/ GetPlayerPOToken(1)
    \/ SendPlayerRequest(1)
    \/ ReceivePlayerResponse(1)
    \/ GetGVSPOToken(1)
    \/ GVSPOTokenReturned(1)
    \/ ParseFormats(1)
    \/ SendPost(1)
    \/ ReceiveOracle(1)
    \/ StoreToken(1)

\* Two goroutines calling GetVideo on one new client, up to the end of
\* ensurePlayer.
PlayerNext ==
    \/ \E g \in Resolvers : GetVideoStart(g)
    \/ \E g \in Resolvers : FetchPlayerURL(g)
    \/ \E g \in Resolvers : fetchPlayerURLFromPage(g)
    \/ \E g \in Resolvers : fetchPlayerURLFromEmbed(g)
    \/ \E g \in Resolvers : FetchPlayerCode(g)

\* One GetVideo call up to the end of ensurePlayer, in either port.
AcquireNext ==
    \/ GetVideoStart(1)
    \/ FetchPlayerURL(1)
    \/ fetchPlayerURLFromPage(1)
    \/ fetchPlayerURLFromEmbed(1)
    \/ FetchPlayerCode(1)

(***************************************************************************)
(* Specifications                                                          *)
(***************************************************************************)
(***************************************************************************)
(* Token attachment: pot.ApplyToHLSManifestURL, pot.ApplyToSegmentURL and  *)
(* Client.addPOTokenToURL                                                  *)
(***************************************************************************)
RECURSIVE TrimRight(_)
\* strings.TrimRight(s, "/")
TrimRight(s) ==
    IF s = << >> THEN s
    ELSE IF s[Len(s)] # "/" THEN s
    ELSE TrimRight(SubSeq(s, 1, Len(s) - 1))

\* ApplyToHLSManifestURL; the token is opaque, one element of the result.
ApplyToHLSManifestURL(ManifestURL, PoToken) ==
    IF PoToken = "" THEN ManifestURL
    ELSE TrimRight(ManifestURL) \o <<"/", "p", "o", "t", "/", PoToken>>

ApplyToSegmentURLMutAdd(SegmentURL, PoToken) ==
    IF PoToken = "" THEN SegmentURL
    ELSE IF ~SegmentURL.valid THEN SegmentURL
    ELSE [SegmentURL EXCEPT
            !.q = Append(@, [k |-> "pot", v |-> <<PoToken>>])]

\* ApplyToSegmentURL
ApplyToSegmentURL(SegmentURL, PoToken) ==
    IF PoToken = "" THEN SegmentURL
    ELSE IF ~SegmentURL.valid THEN SegmentURL
    ELSE [SegmentURL EXCEPT !.q = QSet(@, "pot", <<PoToken>>)]

ManifestChars == {"x", "/"}

ManifestURLs == SeqsUpTo(ManifestChars, MaxURLLen)

SegmentPairs == {[k |-> k, v |-> <<c>>] : k \in {"foo", "pot"}, c \in {"1", "2"}}

\* Segment URLs: any query of up to MaxParams pairs, or a string that
\* url.Parse rejects.
SegmentURLs == {BadURL} \cup {U(q) : q \in SeqsUpTo(SegmentPairs, MaxParams)}

\* The inputs of an attachment call that has not been made.
NewAttach(m, u, tok) ==
    [fn |-> "none", manifest |-> m, segment |-> u, tok |-> tok,
     mout |-> << >>, uout |-> EmptyURL]

AttachIdle == attach = NewAttach(<< >>, EmptyURL, "")

AttachInit ==
    attach \in {NewAttach(m, u, tok) :
                   m \in ManifestURLs, u \in SegmentURLs, tok \in OracleTokens}

\* A call of ApplyToHLSManifestURL (ApplyToDASHManifestURL is the same).
AttachToManifest ==
    /\ attach.fn = "none"
    /\ attach' = [attach EXCEPT !.fn = "manifest",
            !.mout = ApplyToHLSManifestURL(attach.manifest, attach.tok)]
    /\ UNCHANGED notAttach

\* A call of ApplyToSegmentURL.
AttachToSegment ==
    /\ attach.fn = "none"
    /\ attach' = [attach EXCEPT !.fn = "segment",
            !.uout = ApplyToSegmentURL(attach.segment, attach.tok)]
    /\ UNCHANGED notAttach

\* A call of Client.addPOTokenToURL.
AttachToStream ==
    /\ attach.fn = "none"
    /\ attach' = [attach EXCEPT !.fn = "stream",
            !.uout = addPOTokenToURL(attach.segment, attach.tok)]
    /\ UNCHANGED notAttach

AttachNext == AttachToManifest \/ AttachToSegment \/ AttachToStream

(***************************************************************************)
(* Client.parsePlayerResponse as a function of the streamingData           *)
(***************************************************************************)
Itags == {18, 22}

\* The raw formats by what parseFormat does with them: a url; neither url
\* nor signatureCipher; a cipher with s and a url; a cipher url.ParseQuery
\* rejects; a cipher whose url does not parse; a cipher without s or url.
ParsedRawFormats ==
    UNION {{[itag |-> t, url |-> U(<< >>), cipher |-> NoCipher],
            [itag |-> t, url |-> EmptyURL, cipher |-> NoCipher]}
           \cup {[itag |-> t, url |-> EmptyURL, cipher |-> c] :
                   c \in {[ok |-> TRUE, present |-> TRUE, url |-> U(<< >>),
                           s |-> <<"a", "b", "c">>, sp |-> ""],
                          [ok |-> FALSE, present |-> TRUE, url |-> EmptyURL,
                           s |-> << >>, sp |-> ""],
                          [ok |-> TRUE, present |-> TRUE, url |-> BadURL,
                           s |-> <<"a", "b", "c">>, sp |-> ""],
                          [ok |-> TRUE, present |-> TRUE, url |-> EmptyURL,
                           s |-> << >>, sp |-> ""]}} : t \in Itags}

ParsedLists == UNION {[1..n -> ParsedRawFormats] : n \in 0..MaxParsed}

\* A response not parsed yet: streamingData, c.Decipherer and the GVS token.
NewParsed(l, k, dec, tok) ==
    [formats |-> SubSeq(l, 1, k), adaptiveFormats |-> SubSeq(l, k + 1, Len(l)),
     dec |-> dec, gvsPOToken |-> tok, called |-> FALSE, out |-> << >>]

ParsedIdle == parsed = NewParsed(<< >>, 0, NoDecipherer, "")

ParsedInit ==
    \E l \in ParsedLists :
        \E k \in 0..Len(l),
           c \in {[dec |-> NoDecipherer, tok |-> ""],
                  [dec |-> NewDecipherer("K1"), tok |-> "T1"]} :
            parsed = NewParsed(l, k, c.dec, c.tok)

\* parsePlayerResponse from allFormats on: the loop that fills video.Formats.
parsePlayerResponse ==
    /\ ~parsed.called
    /\ parsed' = [parsed EXCEPT
            !.called = TRUE,
            !.out = ParseAll(parsed.dec,
                             parsed.formats \o parsed.adaptiveFormats,
                             parsed.gvsPOToken, 1)]
    /\ UNCHANGED notParsed

ParsedNext == parsePlayerResponse

(***************************************************************************)
(* Client.processNParameter as a function of the URL and the solver        *)
(***************************************************************************)
\* The query parameters of a stream URL: n with a value, n with the empty
\* value, and another parameter.
NParamPairs ==
    {[k |-> "n", v |-> <<"x">>], [k |-> "n", v |-> << >>],
     [k |-> "foo", v |-> <<"1">>]}

NParamURLs == {BadURL} \cup {U(q) : q \in SeqsUpTo(NParamPairs, MaxParams)}

\* c.Decipherer: nil, or built from a player script with no n function, one
\* whose evaluation fails, one that maps n, and one that returns its input.
NParamDeciphers ==
    {NoDecipherer}
    \cup {[built |-> TRUE, sigTokens |-> << >>, nSolver |-> k] :
            k \in {"none", "fails", "maps", "same"}}

NewNParam(dec, u) == [dec |-> dec, url |-> u, called |-> FALSE, out |-> u]

NParamIdle == nparam = NewNParam(NoDecipherer, EmptyURL)

NParamInit ==
    \E dec \in NParamDeciphers, u \in NParamURLs : nparam = NewNParam(dec, u)

\* parseFormat: streamURL = c.processNParameter(streamURL)
ProcessN ==
    /\ ~nparam.called
    /\ nparam' = [nparam EXCEPT !.called = TRUE,
                                !.out = processNParameter(nparam.dec, nparam.url)]
    /\ UNCHANGED notNparam

NParamNext == ProcessN

(***************************************************************************)
(* auth.Auth: the data sync id and the session id                          *)
(***************************************************************************)
\* An Auth as its constructors leave it: DataSyncID and SessionID empty;
\* sets counts the SetDataSyncID calls.
NewAuth == [DataSyncID |-> << >>, SessionID |-> << >>, sets |-> 0]

SessionIdle == session = NewAuth

\* Auth.SetDataSyncID(dataSyncID)
SetDataSyncID ==
    /\ session.sets < MaxSets
    /\ \E dataSyncID \in DataSyncIDs :
         session' = [DataSyncID |-> dataSyncID,
                     SessionID |-> IF dataSyncID # << >>
                                      /\ FirstPart(dataSyncID) # << >>
                                   THEN FirstPart(dataSyncID)
                                   ELSE session.SessionID,
                     sets |-> session.sets + 1]
    /\ UNCHANGED notSession

\* Auth.GetSessionID
GetSessionID == session.SessionID

SessionNext == SetDataSyncID

(***************************************************************************)
(* NewClientWithOptions as a function of the options                       *)
(***************************************************************************)
\* The Auth a cookie source makes: without or with a login cookie (SID or
\* __Secure-3PSID); the data sync id is not in the cookies.
CookieAuths ==
    {[present |-> TRUE, loggedIn |-> l, visitor |-> <<"v">>,
      dataSyncID |-> << >>] : l \in BOOLEAN}

\* opts.CookieFile: empty, a file NewAuthFromFile cannot read, or a file.
CookieFiles ==
    {NoCookies, [given |-> TRUE, err |-> TRUE, auth |-> NoAuth]}
    \cup {[given |-> TRUE, err |-> FALSE, auth |-> a] : a \in CookieAuths}

\* opts.CookieString: empty, or a cookie header (NewAuthFromString returns
\* no error).
CookieStrings ==
    {NoCookies} \cup {[given |-> TRUE, err |-> FALSE, auth |-> a] :
                        a \in CookieAuths}

AllClientOptions ==
    [Clients : {<< >>, <<Bare, Web>>}, Auth : {NoAuth} \cup CookieAuths,
     CookieFile : CookieFiles, CookieString : CookieStrings]

NewMade(opts) ==
    [opts |-> opts, called |-> FALSE, Clients |-> << >>, Auth |-> NoAuth]

MadeIdle == made = NewMade(CHOOSE o \in ClientOptions :
                              o.Clients = << >> /\ o.Auth = NoAuth)

MadeInit == \E opts \in AllClientOptions : made = NewMade(opts)

\* c := NewClientWithOptions(opts)
Construct ==
    /\ ~made.called
    /\ made' = [made EXCEPT !.called = TRUE,
                            !.Clients = Constructed(made.opts).Clients,
                            !.Auth = Constructed(made.opts).Auth]
    /\ UNCHANGED notMade

MadeNext == Construct

(***************************************************************************)
(* GetHLSManifest and GetHLSPlaylist with the same options                 *)
(***************************************************************************)
\* An absolute playlist URI the master manifest names.
ServerPlaylistURI == <<"y">>

\* A manifest URL and the PoToken of the options, nothing fetched yet.
NewHLS(m, tok) ==
    [pc |-> "new", ManifestURL |-> m, PoToken |-> tok, fetched |-> << >>,
     Playlists |-> << >>]

HLSIdle == hls = NewHLS(<< >>, "")

HLSInit == \E m \in ManifestURLs, tok \in OracleTokens : hls = NewHLS(m, tok)

\* GetHLSManifest(ManifestURL, Options): the token is applied, the URL
\* fetched, and ParseHLSManifest(Content, ManifestURL) lists the playlists:
\* the fetched URL itself when the content is a media playlist, the URIs of
\* the content when it is a master manifest.
GetHLSManifest ==
    /\ hls.pc = "new"
    /\ LET url == ApplyToHLSManifestURL(hls.ManifestURL, hls.PoToken)
       IN  \E content \in {"err", "media", "master"} :
             hls' = [hls EXCEPT
                !.fetched = <<url>>,
                !.pc = IF content = "err" THEN "failed" ELSE "manifest",
                !.Playlists = IF content = "media" THEN <<url>>
                              ELSE IF content = "master"
                              THEN <<ServerPlaylistURI>>
                              ELSE << >>]
    /\ UNCHANGED notHls

\* GetHLSPlaylist(PlaylistURI, Options) for a playlist of the manifest, with
\* the options of the manifest fetch.
GetHLSPlaylist ==
    /\ hls.pc = "manifest"
    /\ \E i \in 1..Len(hls.Playlists) :
         hls' = [hls EXCEPT
            !.pc = "playlist",
            !.fetched = Append(@, ApplyToHLSManifestURL(hls.Playlists[i],
                                                        hls.PoToken))]
    /\ UNCHANGED notHls

HLSNext == GetHLSManifest \/ GetHLSPlaylist

(***************************************************************************)
(* Config.Current: the periodic refresh                                    *)
(***************************************************************************)
\* The player scripts the home page may name in PLAYER_JS_URL.
PlayerJSURLs == {"P1", "P2"}

\* Utils.ExtractTokens(player) for the script at url: the tokens are named
\* after their script; "" stands for nil, the value before any extraction.
ExtractedFrom(url) == url

\* What the GET of the home page gives: a transport or read error, a body
\* without a ytcfg.set block, a block that is not JSON, or a ytcfg with or
\* without a PLAYER_JS_URL string.
Pages ==
    {[res |-> r, PlayerJSURL |-> ""] : r \in {"neterr", "nocfg", "badjson", "ok"}}
    \cup {[res |-> "ok", PlayerJSURL |-> u] : u \in PlayerJSURLs}

\* Config.Current before Init: no refresh goroutine; attempts counts the
\* Update calls, last and downloaded record the latest one.
NewConfig ==
    [pc |-> "off", PlayerJSURL |-> "", PlayerTokens |-> "", attempts |-> 0,
     last |-> "none", downloaded |-> "none"]

ConfigIdle == config = NewConfig

\* Init: go Current.Update("en")
StartRefresh ==
    /\ config.pc = "off"
    /\ config' = [config EXCEPT !.pc = "due"]
    /\ UNCHANGED notConfig

\* YoutubeConfig.Update, the whole call under the write lock: an early
\* return with an error leaves no goroutine behind; otherwise the player
\* script is downloaded when the page names another PLAYER_JS_URL than the
\* stored one, and the goroutine that sleeps 15 minutes is started.
Update ==
    /\ config.pc = "due"
    /\ config.attempts < MaxUpdates
    /\ \E page \in Pages, got \in BOOLEAN :
         LET changed == page.PlayerJSURL # ""
                        /\ page.PlayerJSURL # config.PlayerJSURL
         IN  /\ ~changed => got
             /\ config' =
                  IF page.res # "ok"
                  THEN [config EXCEPT !.pc = "stopped", !.attempts = @ + 1,
                                      !.last = page.res,
                                      !.downloaded = "none"]
                  ELSE [config EXCEPT
                          !.pc = "sleeping", !.attempts = @ + 1,
                          !.last = "ok",
                          !.downloaded = IF ~changed THEN "none"
                                         ELSE IF got THEN "ok" ELSE "failed",
                          !.PlayerJSURL = IF changed THEN page.PlayerJSURL
                                          ELSE @,
                          !.PlayerTokens =
                              IF changed /\ got
                              THEN ExtractedFrom(page.PlayerJSURL) ELSE @]
    /\ UNCHANGED notConfig

\* time.Sleep(15 * time.Minute) returns in the goroutine Update started.
SleepElapsed ==
    /\ config.pc = "sleeping"
    /\ config' = [config EXCEPT !.pc = "due"]
    /\ UNCHANGED notConfig

\* YoutubeConfig.GetPlayerTokens
GetPlayerTokens == config.PlayerTokens

ConfigNext == StartRefresh \/ Update \/ SleepElapsed

\* The Go client.
GoPort == port = "go"

LibIdle ==
    /\ ReplayIdle /\ SolverIdle /\ DownloadIdle /\ AttachIdle /\ GoPort
    /\ ParsedIdle /\ NParamIdle /\ SessionIdle /\ MadeIdle /\ HLSIdle /\ ConfigIdle

\* A new provider and a new client, nothing called yet.
Init == TokInit /\ NewClient /\ ResInit /\ LibIdle

\* The same with the client built from any of the options.
InitWithOptions ==
    /\ TokInit
    /\ \E opts \in ClientOptions : NewClientWithOptions(opts)
    /\ ResInit
    /\ LibIdle

\* A Decipherer built from any player script, beside an idle client.
InitDecipher ==
    /\ TokInit /\ NewClient /\ ResInit
    /\ DecipherInit /\ SolverIdle /\ DownloadIdle /\ AttachIdle /\ GoPort
    /\ ParsedIdle /\ NParamIdle /\ SessionIdle /\ MadeIdle /\ HLSIdle /\ ConfigIdle

\* An NSolver built from any player script, beside an idle client.
InitSolver ==
    /\ TokInit /\ NewClient /\ ResInit
    /\ ReplayIdle /\ SolverInit /\ DownloadIdle /\ AttachIdle /\ GoPort
    /\ ParsedIdle /\ NParamIdle /\ SessionIdle /\ MadeIdle /\ HLSIdle /\ ConfigIdle

\* Any manifest URL, segment URL and token, beside an idle client.
InitAttach ==
    /\ TokInit /\ NewClient /\ ResInit
    /\ ReplayIdle /\ SolverIdle /\ DownloadIdle /\ AttachInit /\ GoPort
    /\ ParsedIdle /\ NParamIdle /\ SessionIdle /\ MadeIdle /\ HLSIdle /\ ConfigIdle

\* A client of either port built from any of the options.
InitAcquire ==
    /\ TokInit
    /\ \E opts \in ClientOptions : NewClientWithOptions(opts)
    /\ ResInit
    /\ ReplayIdle /\ SolverIdle /\ DownloadIdle /\ AttachIdle
    /\ port \in {"go", "ts"}
    /\ ParsedIdle /\ NParamIdle /\ SessionIdle /\ MadeIdle /\ HLSIdle /\ ConfigIdle

\* Any streamingData, beside an idle client.
InitParsed ==
    /\ TokInit /\ NewClient /\ ResInit
    /\ ReplayIdle /\ SolverIdle /\ DownloadIdle /\ AttachIdle /\ GoPort
    /\ ParsedInit /\ NParamIdle /\ SessionIdle /\ MadeIdle /\ HLSIdle /\ ConfigIdle

\* Any stream URL and any decipherer, beside an idle client.
InitNParam ==
    /\ TokInit /\ NewClient /\ ResInit
    /\ ReplayIdle /\ SolverIdle /\ DownloadIdle /\ AttachIdle /\ GoPort
    /\ ParsedIdle /\ NParamInit /\ SessionIdle /\ MadeIdle /\ HLSIdle /\ ConfigIdle

\* Any combination of the options, beside an idle client.
InitMade ==
    /\ TokInit /\ NewClient /\ ResInit
    /\ ReplayIdle /\ SolverIdle /\ DownloadIdle /\ AttachIdle /\ GoPort
    /\ ParsedIdle /\ NParamIdle /\ SessionIdle /\ MadeInit /\ HLSIdle /\ ConfigIdle

\* Any manifest URL and token, beside an idle client.
InitHLS ==
    /\ TokInit /\ NewClient /\ ResInit
    /\ ReplayIdle /\ SolverIdle /\ DownloadIdle /\ AttachIdle /\ GoPort
    /\ ParsedIdle /\ NParamIdle /\ SessionIdle /\ MadeIdle /\ HLSInit /\ ConfigIdle

SpecToken == Init /\ [][TokNext]_vars

SpecInvalidate == Init /\ [][InvalidateNext]_vars

SpecBinding == Init /\ [][BindNext]_vars

SpecSession == Init /\ [][SessionNext]_vars

SpecMade == InitMade /\ [][MadeNext]_vars

SpecHLS == InitHLS /\ [][HLSNext]_vars

SpecConfig == Init /\ [][ConfigNext]_vars

\* The refresh with its scheduling: the goroutine started by Init or by
\* Update runs, and a sleep of 15 minutes ends.
SpecConfigLive == Init /\ [][ConfigNext]_vars /\ WF_vars(ConfigNext)

SpecResolve == InitWithOptions /\ [][ResolveNext]_vars

SpecPlayer == Init /\ [][PlayerNext]_vars

SpecDecipher == InitDecipher /\ [][DecipherNext]_vars

SpecSolver == InitSolver /\ [][SolverNext]_vars

SpecDownload == Init /\ [][DownloadNext]_vars

SpecAttach == InitAttach /\ [][AttachNext]_vars

SpecAcquire == InitAcquire /\ [][AcquireNext]_vars

SpecParsed == InitParsed /\ [][ParsedNext]_vars

SpecNParam == InitNParam /\ [][NParamNext]_vars

(***************************************************************************)
(* Properties of the token provider                                        *)
(***************************************************************************)

\* C5: a GetToken(binding) call that begins after the latest successful
\* GetToken for that binding has returned, and before that token's cached
\* expiry, issues no POST /get_pot and returns that same token (so the two
\* calls together issue at most one POST).
C5_CacheHitPath ==
    \A t \in Callers :
        (treg[t].done /\ treg[t].prevLive) =>
            /\ ~treg[t].posted
            /\ treg[t].ok
            /\ treg[t].res = treg[t].prevTok

C5_Witness ==
    \E t \in Callers :
        /\ treg[t].done /\ treg[t].prevLive
        /\ treg[t].src = "cache" /\ treg[t].res \in {"T1", "T2"}

\* C6: a token is served from the cache only while now < expiry; a call that
\* finds an expired entry asks the oracle, and when the oracle delivers, the
\* binding's cache entry is the new token with its expiry when the call
\* returns.
C6_ExpiredIsAbsent ==
    \A t \in Callers :
        /\ (treg[t].done /\ treg[t].src = "cache") => ~treg[t].servedStale
        /\ (treg[t].sawExpired /\ (treg[t].done \/ tpc[t] \in {"recv", "store"}))
              => (treg[t].posted /\ treg[t].src # "cache")
        /\ (treg[t].sawExpired /\ treg[t].done /\ treg[t].ok)
              => (treg[t].src = "oracle" /\ treg[t].stored)

C6_Witness ==
    \E t \in Callers :
        /\ treg[t].sawExpired /\ treg[t].done /\ treg[t].ok
        /\ treg[t].posted /\ treg[t].stored

\* C7 (as claimed): GetToken fails, returns no token and does not write the
\* cache when the request hits a network error, the status is not 200, the
\* response has a non-empty error field, or poToken is empty.
C7_FailureCase(t) ==
    \/ treg[t].rclass = "neterr"
    \/ (treg[t].rclass # "none" /\ treg[t].rclass # "neterr"
        /\ treg[t].rstatus # 200)
    \/ treg[t].rclass = "errfield"
    \/ treg[t].rclass = "empty"

C7_AllFourCasesFail ==
    \A t \in Callers :
        (treg[t].done /\ C7_FailureCase(t)) =>
            (~treg[t].ok /\ treg[t].res = "" /\ ~treg[t].wrote)

\* C8 (as claimed): the binding is the part of dataSyncID before its first
\* "||" for every non-empty dataSyncID, and visitor when dataSyncID is empty.
C8_BindingIsFirstPart ==
    \A t \in Callers :
        treg[t].gvs =>
            treg[t].binding = (IF treg[t].dsid # << >>
                               THEN FirstPart(treg[t].dsid)
                               ELSE treg[t].visitor)

\* C8 (amended): the binding is the part of dataSyncID before its first "||"
\* when that part is non-empty, the whole dataSyncID when it begins with
\* "||", and visitor when dataSyncID is empty; a POST carries that binding.
C8_BindingAmended ==
    \A t \in Callers :
        treg[t].gvs =>
            /\ treg[t].binding =
                 (IF treg[t].dsid = << >> THEN treg[t].visitor
                  ELSE IF SepIndex(treg[t].dsid) = 1 THEN treg[t].dsid
                  ELSE FirstPart(treg[t].dsid))
            /\ treg[t].posted => treg[t].req = treg[t].binding

C8_Witness ==
    \E t \in Callers :
        /\ treg[t].gvs /\ treg[t].posted
        /\ SepIndex(treg[t].dsid) = 1
        /\ treg[t].req = treg[t].dsid

(***************************************************************************)
(* Properties of the resolver                                              *)
(***************************************************************************)

\* The server's own URL of raw format sf: its url field, else the url
\* inside its signatureCipher.
ServerURL(sf) == IF sf.url # EmptyURL THEN sf.url ELSE sf.cipher.url

\* The parameter the cipher of sf asks the signature to be stored under.
NamedByCipher(sf, k) ==
    /\ sf.url = EmptyURL
    /\ sf.cipher.s # << >>
    /\ k = (IF sf.cipher.sp = "" THEN "sig" ELSE sf.cipher.sp)

\* C1: GetVideo issues its player requests in list order starting from the
\* first client, one at a time, each only after the one before has failed;
\* after an OK response no later client is attempted and the Video returned
\* is the one built from that response.
C1_SequentialClients ==
    \A g \in Resolvers :
        LET a == greg[g].attempts
        IN  /\ \A k \in 1..Len(a) : a[k].client = k
            /\ \A k \in 1..(Len(a) - 1) : a[k].out \notin {"pending", "ok"}
            /\ Len(a) <= Len(clients)
            /\ greg[g].video.ok =>
                 /\ Len(a) >= 1
                 /\ a[Len(a)].out = "ok"
                 /\ greg[g].video.client = a[Len(a)].client
            /\ (greg[g].returned /\ Len(a) >= 1 /\ a[Len(a)].out = "ok") =>
                 greg[g].video.ok

\* C1 witness: a Video returned from the third client after two failures.
C1_Witness ==
    \E g \in Resolvers :
        /\ greg[g].video.ok
        /\ Len(greg[g].attempts) = 3
        /\ greg[g].video.client = 3

\* C9: when every client's response is rejected by its playability status,
\* GetVideo returns no Video and one error that wraps the last client's
\* failure, with that response's status and reason.
C9_AllRejected ==
    \A g \in Resolvers :
        LET a == greg[g].attempts
        IN  (/\ greg[g].returned
             /\ Len(a) = Len(clients)
             /\ \A k \in 1..Len(a) : a[k].out = "unplayable") =>
                /\ ~greg[g].video.ok
                /\ greg[g].err.kind = "allfailed"
                /\ greg[g].wrapped = "unplayable"
                /\ greg[g].err.status = a[Len(a)].status
                /\ greg[g].err.reason = a[Len(a)].reason

\* C9 witness: three rejections, the last with another reason than the first.
C9_Witness ==
    \E g \in Resolvers :
        LET a == greg[g].attempts
        IN  /\ greg[g].returned
            /\ Len(a) = 3
            /\ \A k \in 1..3 : a[k].out = "unplayable"
            /\ a[1].reason # a[3].reason
            /\ greg[g].err.reason = a[3].reason

\* C2 as stated: no URL of a returned Video has a query parameter named s
\* or sp.
C2_NoCipherParams ==
    \A g \in Resolvers :
        greg[g].video.ok =>
            \A i \in 1..Len(greg[g].video.formats) :
                /\ ~HasParam(greg[g].video.formats[i].url, "s")
                /\ ~HasParam(greg[g].video.formats[i].url, "sp")

\* C2 amended: a URL of a returned Video has a parameter named s or sp only
\* if the server's own URL of that format already had one of that name, or
\* the cipher's sp field names it as the place for the signature; the
\* cipher's s and sp fields themselves are never carried into the URL.
C2_CipherFieldsNotCopied ==
    \A g \in Resolvers :
        greg[g].video.ok =>
            \A i \in 1..Len(greg[g].video.formats) :
                LET f == greg[g].video.formats[i]
                    sf == greg[g].all[f.src]
                IN  \A k \in {"s", "sp"} :
                        HasParam(f.url, k) =>
                            \/ HasParam(ServerURL(sf), k)
                            \/ NamedByCipher(sf, k)

\* C2 witness: a ciphered format whose signature was deciphered and stored
\* under sig, the returned URL having neither s nor sp.
C2_Witness ==
    \E g \in Resolvers :
        /\ greg[g].video.ok
        /\ \E i \in 1..Len(greg[g].video.formats) :
             LET f == greg[g].video.formats[i]
                 sf == greg[g].all[f.src]
             IN  /\ sf.url = EmptyURL
                 /\ sf.cipher.s # << >>
                 /\ sf.cipher.sp = ""
                 /\ QGet(f.url.q, "sig") =
                      decipherSignature(decipherer.sigTokens, sf.cipher.s)
                 /\ QGet(f.url.q, "sig") # sf.cipher.s
                 /\ ~HasParam(f.url, "s")
                 /\ ~HasParam(f.url, "sp")

\* C3 as stated: when the answering client's GVS policy is non-empty and the
\* oracle is reachable, every URL of the returned Video has a pot parameter.
C3_PotWhenReachable ==
    \A g \in Resolvers :
        (/\ greg[g].video.ok
         /\ clients[greg[g].video.client].gvsPolicies > 0
         /\ greg[g].gvsPing = "up") =>
            \A i \in 1..Len(greg[g].video.formats) :
                HasParam(greg[g].video.formats[i].url, "pot")

\* C3 amended: when the GVS token was obtained (non-empty policy, ping
\* answered, token request successful), every URL of the returned Video that
\* url.Parse accepts has exactly one pot parameter, whose value is that
\* token; a URL that does not parse is returned as the server gave it.
C3_PotWhenObtained ==
    \A g \in Resolvers :
        (greg[g].video.ok /\ greg[g].gvsPOToken # "") =>
            /\ clients[greg[g].video.client].gvsPolicies > 0
            /\ greg[g].gvsPing = "up"
            /\ \A i \in 1..Len(greg[g].video.formats) :
                 LET f == greg[g].video.formats[i]
                     sf == greg[g].all[f.src]
                 IN  IF f.url.valid
                     THEN /\ QGet(f.url.q, "pot") = <<greg[g].gvsPOToken>>
                          /\ Len(SelectPairs(f.url.q, {"pot"})) = 1
                     ELSE f.url = ServerURL(sf)

\* C3 witness: a token was obtained and a returned URL carries it in place
\* of the pot value the server's URL had.
C3_Witness ==
    \E g \in Resolvers :
        /\ greg[g].video.ok
        /\ greg[g].gvsPOToken # ""
        /\ \E i \in 1..Len(greg[g].video.formats) :
             LET f == greg[g].video.formats[i]
                 sf == greg[g].all[f.src]
             IN  /\ HasParam(ServerURL(sf), "pot")
                 /\ QGet(f.url.q, "pot") = <<greg[g].gvsPOToken>>

\* C4 as stated: when the oracle is unreachable (no ping of the call is
\* answered), a call that got an OK response returns its Video, and no URL
\* of that Video has a pot parameter or a pot path segment.
C4_NoPotWhenUnreachable ==
    \A g \in Resolvers :
        (/\ greg[g].returned
         /\ ~greg[g].sawUp
         /\ Len(greg[g].attempts) >= 1
         /\ greg[g].attempts[Len(greg[g].attempts)].out = "ok") =>
            /\ greg[g].video.ok
            /\ \A i \in 1..Len(greg[g].video.formats) :
                 LET f == greg[g].video.formats[i]
                 IN  /\ ~HasParam(f.url, "pot")
                     /\ \A j \in 1..Len(f.url.path) : f.url.path[j] # "pot"

\* C4 amended: when no ping of the call is answered, a call that got an OK
\* response returns its Video without any request to the oracle and without
\* reading the token cache, and attaches no token: a returned URL has a pot
\* parameter only if the server's own URL had that very parameter (or the
\* cipher's sp field names pot), and its path is the server's.
C4_NoTokenAttachedWhenUnreachable ==
    \A g \in Resolvers :
        (/\ greg[g].returned
         /\ ~greg[g].sawUp
         /\ Len(greg[g].attempts) >= 1
         /\ greg[g].attempts[Len(greg[g].attempts)].out = "ok") =>
            /\ greg[g].video.ok
            /\ ncalls = 0
            /\ greg[g].gvsPOToken = ""
            /\ \A k \in 1..Len(greg[g].attempts) :
                 greg[g].attempts[k].poToken = ""
            /\ \A i \in 1..Len(greg[g].video.formats) :
                 LET f == greg[g].video.formats[i]
                     sf == greg[g].all[f.src]
                 IN  /\ f.url.path = ServerURL(sf).path
                     /\ HasParam(f.url, "pot") =>
                          \/ /\ HasParam(ServerURL(sf), "pot")
                             /\ SelectPairs(f.url.q, {"pot"}) =
                                  SelectPairs(ServerURL(sf).q, {"pot"})
                          \/ NamedByCipher(sf, "pot")

\* C4 witness: the ping failed, the third client (which requires a token)
\* answered OK after two failures, and a URL came back without pot.
C4_Witness ==
    \E g \in Resolvers :
        /\ greg[g].video.ok
        /\ ~greg[g].sawUp
        /\ greg[g].gvsPing = "down"
        /\ greg[g].video.client = 3
        /\ RequiresPoToken(clients[3])
        /\ \E i \in 1..Len(greg[g].video.formats) :
             /\ greg[g].video.formats[i].url.valid
             /\ ~HasParam(greg[g].video.formats[i].url, "pot")

\* The snapshot is absent, or all of its fields come from one script.
SnapshotWhole ==
    \/ playerURL = "" /\ playerCode = "" /\ ~decipherer.built
    \/ /\ playerURL # ""
       /\ playerCode = CodeOf(playerURL)
       /\ decipherer = NewDecipherer(playerCode)

\* C10 as stated: at most one goroutine is building the player snapshot at a
\* time, the snapshot is built at most once per Client, and whenever no
\* builder is at work the snapshot is absent or whole.
C10_GuardedBuild ==
    LET builders == {g \in Resolvers :
                        gpc[g] \in {"playerURL", "watchPage", "embedPage",
                                    "playerCode"}}
    IN  /\ Cardinality(builders) <= 1
        /\ Cardinality({g \in Resolvers : greg[g].built}) <= 1
        /\ builders = {} => SnapshotWhole

(***************************************************************************)
(* Signature replay (decipher/decipher.go)                                 *)
(***************************************************************************)
RECURSIVE RefReverse(_)
\* The reference rules, written without the model of the code.
RefReverse(a) ==
    IF a = << >> THEN << >> ELSE Append(RefReverse(Tail(a)), Head(a))

RefDrop(a, n) == IF n < Len(a) THEN [i \in 1..(Len(a) - n) |-> a[i + n]] ELSE a

RefSwap(a, n) ==
    LET j == (n % Len(a)) + 1
    IN  [i \in 1..Len(a) |-> IF i = 1 THEN a[j] ELSE IF i = j THEN a[1] ELSE a[i]]

RefStep(a, tk) ==
    IF tk.op = "r" THEN RefReverse(a)
    ELSE IF ~tk.num THEN a
    ELSE IF tk.op \in {"s", "p"} THEN RefDrop(a, tk.arg)
    ELSE IF tk.op = "w" THEN RefSwap(a, tk.arg)
    ELSE a

RECURSIVE RefReplay(_, _, _)
\* The reference applied to the first k tokens, in order.
RefReplay(tokens, k, sig) ==
    IF k = 0 THEN sig ELSE RefStep(RefReplay(tokens, k - 1, sig), tokens[k])

\* C11: for every token list and every signature of length 1 or more,
\* DecipherSignature returns what the reference rules give when the tokens
\* are applied in order: r reverses, sN and pN drop the first N characters
\* when N is less than the current length and change nothing otherwise, wN
\* swaps position 0 with position N mod the current length.
C11_ReplayMatchesReference ==
    (replay.called /\ Len(replay.sig) >= 1) =>
        /\ ~replay.panicked
        /\ replay.out = RefReplay(replay.tokens, Len(replay.tokens), replay.sig)

\* C11 witness: a two-token list with a swap and a drop has been replayed
\* on a signature of three distinct characters and changed it.
C11_Witness ==
    /\ replay.called
    /\ replay.tokens = <<Tok("w", 2), Tok("s", 1)>>
    /\ replay.sig = <<"a", "b", "c">>
    /\ replay.out = <<"b", "a">>

\* C12: signature replay never panics, for any token list and any
\* signature, the empty signature included; an empty token list returns
\* the signature unchanged and a token with a malformed numeric operand
\* leaves the working string as it was.
C12_ReplayNeverPanics ==
    replay.called =>
        /\ ~replay.panicked
        /\ replay.tokens = << >> => replay.out = replay.sig
        /\ (\A i \in 1..Len(replay.tokens) : ~replay.tokens[i].num) =>
                replay.out = replay.sig

(***************************************************************************)
(* The n-parameter solver (decipher/nsolver.go)                            *)
(***************************************************************************)
\* C13: once one evaluation has failed the solver is degraded: the failing
\* Solve returns its input unchanged, and every later Solve on the same
\* solver returns its input unchanged without running the script again.
C13_DegradedAfterFailure ==
    /\ nsolver.err => nsolver.out = nsolver.n
    /\ nsolver.afterFail => (~nsolver.ran /\ nsolver.out = nsolver.n)

(***************************************************************************)
(* The binding of the GVS token in a logged-in resolve                     *)
(***************************************************************************)
\* C14: in a resolve made with a logged-in cookie bundle, the GVS token is
\* requested with a binding equal to the session id, the first
\* "||"-separated component of the dataSyncId the server returns, not with
\* the visitor identifier.
C14_BindingIsSessionID ==
    \A g \in Resolvers :
        (auth.present /\ auth.loggedIn /\ gpc[g] = "gvsret"
            /\ greg[g].askedGVS) =>
                /\ treg[g].gvs
                /\ treg[g].binding = FirstPart(ServerDataSyncID)

(***************************************************************************)
(* Chunked download (stream/handler.go)                                    *)
(***************************************************************************)
\* The requests of the log that ask for the range starting at byte a.
RequestsFor(a) == {i \in 1..Len(dl.log) : dl.log[i].start = a}

\* The range requests ask for consecutive ranges of at most ChunkSize: each
\* request repeats the range of a failed one or starts where the last
\* successful one ended.
ConsecutiveRanges ==
    \A i \in 1..Len(dl.log) :
        LET r == dl.log[i] IN
        /\ r.ranged
        /\ r.start <= r.end /\ r.end - r.start + 1 <= ChunkSize
        /\ r.end < dl.L
        /\ IF i = 1 THEN r.start = 0
           ELSE LET q == dl.log[i - 1] IN
                IF q.ok THEN r.start = q.end + 1
                ELSE r.start = q.start /\ r.end = q.end

\* C15: Download of a format with content length L > 0 requests consecutive
\* byte ranges of at most 10 MiB; a failed chunk request is retried up to 3
\* times, with k seconds waited before the k-th retry, and Download returns
\* an error only when the last (third) retry has failed, after which no
\* further chunk is requested.
C15_ThreeRetriesThenError ==
    (dl.hasURL /\ dl.L > 0) =>
        /\ ConsecutiveRanges
        /\ \A i \in 1..Len(dl.log) :
             LET same == {j \in RequestsFor(dl.log[i].start) : j < i}
             IN  /\ Cardinality(same) <= 3
                 /\ dl.log[i].wait = Cardinality(same)
        /\ (dl.pc = "done" /\ dl.err = "retries") =>
             /\ Len(dl.log) >= 1
             /\ ~dl.log[Len(dl.log)].ok
             /\ Cardinality(RequestsFor(dl.log[Len(dl.log)].start)) = 1 + 3

(***************************************************************************)
(* Token attachment                                                        *)
(***************************************************************************)
\* The manifest result: the URL without its trailing slashes, then /pot/T.
ManifestAttached(m, out, tok) ==
    \E k \in 0..Len(m) :
        /\ k > 0 => m[k] # "/"
        /\ \A i \in (k + 1)..Len(m) : m[i] = "/"
        /\ out = [i \in 1..(k + 6) |->
                    IF i <= k THEN m[i]
                    ELSE <<"/", "p", "o", "t", "/", tok>>[i - k]]

\* The values a query gives for one key, in order.
ValuesOf(q, k) ==
    LET P == SelectSeq(q, LAMBDA p : p.k = k)
    IN  [i \in 1..Len(P) |-> P[i].v]

\* The segment result: the same URL with exactly one pot, equal to T, and
\* every other parameter kept.
SegmentAttached(u, out, tok) ==
    /\ out.valid /\ out.host = u.host /\ out.path = u.path
    /\ ValuesOf(out.q, "pot") = <<<<tok>>>>
    /\ \A k \in {u.q[i].k : i \in 1..Len(u.q)} \cup
                {out.q[i].k : i \in 1..Len(out.q)} :
          k # "pot" => ValuesOf(out.q, k) = ValuesOf(u.q, k)

\* C16 as stated: attaching T to a manifest URL removes all trailing
\* slashes and appends /pot/T; attaching T to a segment URL sets pot to T,
\* keeps every other query parameter and leaves exactly one pot.
C16_AttachAsStated ==
    /\ attach.fn = "manifest" =>
          ManifestAttached(attach.manifest, attach.mout, attach.tok)
    /\ attach.fn \in {"segment", "stream"} =>
          SegmentAttached(attach.segment, attach.uout, attach.tok)

\* C16 amended: the above for a non-empty token and a segment URL that
\* url.Parse accepts; ApplyToHLSManifestURL and ApplyToSegmentURL return
\* the URL unchanged for the empty token, and a segment URL that does not
\* parse is returned unchanged; addPOTokenToURL sets pot even to the empty
\* token.
C16_AttachAmended ==
    /\ attach.fn = "manifest" =>
          IF attach.tok # ""
          THEN ManifestAttached(attach.manifest, attach.mout, attach.tok)
          ELSE attach.mout = attach.manifest
    /\ attach.fn = "segment" =>
          IF attach.tok # "" /\ attach.segment.valid
          THEN SegmentAttached(attach.segment, attach.uout, attach.tok)
          ELSE attach.uout = attach.segment
    /\ attach.fn = "stream" =>
          IF attach.segment.valid
          THEN SegmentAttached(attach.segment, attach.uout, attach.tok)
          ELSE attach.uout = attach.segment

\* C16 witness: a token attached to a segment URL that had two pot
\* parameters, leaving one.
C16_Witness ==
    /\ attach.fn = "segment"
    /\ attach.tok = "T1"
    /\ ValuesOf(attach.segment.q, "pot") = <<<<"1">>, <<"2">>>>
    /\ attach.uout.q = <<[k |-> "pot", v |-> <<"T1">>]>>

(***************************************************************************)
(* Player acquisition (Client.fetchPlayerURL and its fallbacks)            *)
(***************************************************************************)
\* C17: none of the three player-acquisition fetches (embedder-loader
\* resource, watch page, embed page) carries the user's cookies, whether or
\* not the client is authenticated.
C17_NoCookiesOnAcquisition ==
    \A g \in Resolvers :
        \A i \in 1..Len(greg[g].fetches) : ~greg[g].fetches[i].cookies

\* C18: acquisition tries the embedder-loader resource, then the watch
\* page, then the embed page, stops at the first source that yields a
\* player URL, and reports failure only after all three sources have been
\* tried and failed, whether by a fetch error or by matching no pattern.
C18_FailsAfterAllSources ==
    \A g \in Resolvers :
        LET f == greg[g].fetches IN
        /\ Len(f) <= Len(Sources)
        /\ \A i \in 1..Len(f) : f[i].src = Sources[i]
        /\ \A i \in 1..(Len(f) - 1) : f[i].res # "url"
        /\ (greg[g].returned /\ greg[g].err.kind = "player"
                /\ greg[g].purl = "") =>
              /\ Len(f) = Len(Sources)
              /\ \A i \in 1..Len(f) : f[i].res \in {"err", "nomatch"}

(***************************************************************************)
(* The player token of a client attempt                                    *)
(***************************************************************************)
\* C19: in a client attempt a player token is minted only if that client's
\* player-token policy requires one and the oracle is reachable; the token
\* is bound to the video id and sent as serviceIntegrityDimensions.poToken;
\* if minting fails the player request is still sent, without the token.
C19_PlayerTokenByPlayerPolicy ==
    \A g \in Resolvers :
        /\ (gpc[g] = "send" /\ greg[g].askedPlayer) =>
              /\ clients[greg[g].idx].playerRequired
              /\ greg[g].sawUp
              /\ treg[g].binding = VideoID /\ ~treg[g].gvs
        /\ gpc[g] = "recv" =>
              LET a == greg[g].attempts[Len(greg[g].attempts)] IN
              /\ a.client = greg[g].idx
              /\ a.poToken # "" => clients[a.client].playerRequired

(***************************************************************************)
(* The order of Video.Formats                                              *)
(***************************************************************************)
\* The URL rewrite of a raw format fails: its signatureCipher is not a
\* query string, or it has a signature to decipher and its url does not
\* parse.
RewriteFailed(dec, sf) ==
    /\ sf.url = EmptyURL /\ sf.cipher.present
    /\ \/ ~sf.cipher.ok
       \/ sf.cipher.s # << >> /\ dec.built /\ ~sf.cipher.url.valid

\* A raw format the claim leaves out.
LeftOut(dec, sf) ==
    \/ sf.url = EmptyURL /\ ~sf.cipher.present
    \/ RewriteFailed(dec, sf)

AllFormats == parsed.formats \o parsed.adaptiveFormats

\* A raw format with no url of its own whose signatureCipher is a query
\* string without a url field.
NoURLCipher(sf) ==
    /\ sf.url = EmptyURL
    /\ sf.cipher.present /\ sf.cipher.ok
    /\ sf.cipher.url = EmptyURL

\* C21: a raw format whose signatureCipher has no url field is skipped (no
\* entry of Video.Formats comes from it, so none has an empty or host-less
\* URL), and the other formats of the response that parse are returned.
C21_NoURLCipherSkipped ==
    parsed.called =>
        /\ \A i \in 1..Len(AllFormats) :
              NoURLCipher(AllFormats[i]) =>
                  \A j \in 1..Len(parsed.out) : parsed.out[j].src # i
        /\ \A j \in 1..Len(parsed.out) : parsed.out[j].url.host
        /\ \A i \in 1..Len(AllFormats) :
              (~NoURLCipher(AllFormats[i]) /\ ~LeftOut(parsed.dec, AllFormats[i]))
                  => \E j \in 1..Len(parsed.out) : parsed.out[j].src = i

(***************************************************************************)
(* The n parameter                                                         *)
(***************************************************************************)
\* The pairs of q other than those of key k, as a bag.
OtherPairs(q, k) ==
    LET I == {i \in 1..Len(q) : q[i].k # k}
    IN  [p \in {q[i] : i \in I} |-> Cardinality({i \in I : q[i] = p})]

\* What the solver of the client gives for n: nothing usable when the client
\* has no decipherer or the solver fails.
Solved(dec, n) ==
    IF ~dec.built THEN [usable |-> FALSE, out |-> n]
    ELSE LET r == SolveNChallenge(dec.nSolver, n)
         IN  [usable |-> ~r.err, out |-> r.out]

\* C22: a stream URL with a query parameter n gets n replaced by the
\* solver's output when that output differs from n, and is returned
\* unchanged when the solver fails or returns n; a URL without n is returned
\* unchanged.
C22_NRewritten ==
    nparam.called =>
        LET u == nparam.url
            n == QGet(u.q, "n")
            r == Solved(nparam.dec, n)
        IN  IF u.valid /\ n # << >> /\ r.usable /\ r.out # n
            THEN /\ nparam.out.valid
                 /\ nparam.out.host = u.host /\ nparam.out.path = u.path
                 /\ QGet(nparam.out.q, "n") = r.out
                 /\ Cardinality({i \in 1..Len(nparam.out.q) :
                                    nparam.out.q[i].k = "n"}) = 1
                 /\ OtherPairs(nparam.out.q, "n") = OtherPairs(u.q, "n")
            ELSE nparam.out = u

\* C22 witness: n = x is replaced by the solver's zx and the other
\* parameter is kept.
C22_Witness ==
    /\ nparam.called
    /\ nparam.dec.built /\ nparam.dec.nSolver = "maps"
    /\ nparam.url.q = <<[k |-> "n", v |-> <<"x">>], [k |-> "foo", v |-> <<"1">>]>>
    /\ QGet(nparam.out.q, "n") = <<"z", "x">>
    /\ HasParam(nparam.out, "foo")

(***************************************************************************)
(* What the writer of a Download receives                                  *)
(***************************************************************************)
\* C23: when Download returns success for a format with content length
\* L > 0, the writer has received exactly the bytes 0 to L-1, each once and
\* in order, also when chunk requests failed part-way and were retried.
C23_WriterGotStreamOnce ==
    (dl.pc = "done" /\ dl.err = "none" /\ dl.hasURL /\ dl.L > 0) =>
        dl.w = Bytes(0, dl.L - 1)

(***************************************************************************)
(* Invalidation and the calls in flight                                    *)
(***************************************************************************)
\* C24: once an invalidation has returned, no later GetToken call is served
\* from the cache a token whose oracle request began before the
\* invalidation, also when a call for that binding was in flight while the
\* invalidation ran.
C24_NoTokenFromBeforeInvalidation ==
    \A t \in Callers :
        (treg[t].done /\ treg[t].src = "cache") => ~treg[t].servedPre

(***************************************************************************)
(* The session id of an Auth                                               *)
(***************************************************************************)
\* C25: after any sequence of SetDataSyncID calls, GetSessionID returns the
\* part of the most recently set data sync id before its first "||", the
\* empty string when that part is empty or the value set last is empty.
C25_SessionIDOfLatest ==
    session.sets > 0 => GetSessionID = FirstPart(session.DataSyncID)

(***************************************************************************)
(* The client list of a client made from options                           *)
(***************************************************************************)
\* C26: with no client-list override, the client list is the authenticated
\* default order if and only if the Auth finally installed is logged in, for
\* every combination of Auth, CookieFile and CookieString; otherwise it is
\* the anonymous default order.
C26_ListFollowsFinalAuth ==
    (made.called /\ made.opts.Clients = << >>) =>
        made.Clients = (IF made.Auth.present /\ made.Auth.loggedIn
                        THEN DefaultAuthenticatedClients
                        ELSE DefaultClients)

(***************************************************************************)
(* The legacy Decipher beside the V2 replay                                *)
(***************************************************************************)
\* A token list made of r, sN, pN and wN tokens.
WellFormed(tokens) == \A i \in 1..Len(tokens) : tokens[i].op = "r" \/ tokens[i].num

\* C27: the legacy Decipher(Tokens, Sig) and Decipherer.DecipherSignature
\* return the same string for every token list made of r, sN, pN and wN
\* tokens and every signature of length 1 or more.
C27_LegacyAgreesWithV2 ==
    (replay.called /\ replay.legacyCalled
     /\ WellFormed(replay.tokens) /\ Len(replay.sig) >= 1) =>
        /\ ~replay.panicked /\ ~replay.legacyPanicked
        /\ replay.legacyOut = replay.out

(***************************************************************************)
(* The token in the URLs of HLS fetches                                    *)
(***************************************************************************)
\* How many times the path segment pair /pot/<tok> occurs in url.
CountPot(url, tok) ==
    Cardinality({i \in 1..(Len(url) - 5) :
                    SubSeq(url, i, i + 5) = <<"/", "p", "o", "t", "/", tok>>})

\* C28: a URL fetched by GetHLSManifest or GetHLSPlaylist carries the PO
\* token at most once, also when the playlist URI already ends with
\* /pot/<token>, inherited from the manifest fetched with the same options.
C28_TokenAtMostOnce ==
    \A k \in 1..Len(hls.fetched) :
        hls.PoToken # "" => CountPot(hls.fetched[k], hls.PoToken) <= 1

(***************************************************************************)
(* The stored player tokens and the refresh schedule                       *)
(***************************************************************************)
\* C29: after every completed Update, also one whose download of the player
\* script failed, the stored PlayerTokens are the tokens extracted from the
\* script at the stored PlayerJSURL.
C29_TokensOfStoredScript ==
    (config.attempts > 0 /\ config.last = "ok") =>
        GetPlayerTokens = ExtractedFrom(config.PlayerJSURL)

\* C30: once Init has started the refresh, every Update attempt is followed
\* by a further attempt (15 minutes later), also after an Update that
\* failed.
C30_RefreshGoesOn ==
    \A n \in 1..(MaxUpdates - 1) :
        (config.attempts = n) ~> (config.attempts = n + 1)

====
